---- MODULE Spec2Model ----
(***************************************************************************)
(* A model of the nools rules engine (src/src): working memory, the alpha  *)
(* / terminal network, the agenda with its focus stack and conflict        *)
(* resolution, and the session's match-fire loop.                          *)
(*                                                                         *)
(* Two specifications share the state:                                     *)
(*   AgendaSpec  an Agenda driven directly through its public operations;  *)
(*   Spec        a Session created from a Flow, driven through assert,     *)
(*               retract, modify, focus, halt and match_rules.             *)
(*   FairSpec    Spec with the match-fire loop scheduled fairly.           *)
(***************************************************************************)
EXTENDS Integers, Sequences, FiniteSets, TLC

VARIABLES
    groups,            \* Agenda.groups: name -> queue of activations (insertion order)
    focus_stack,       \* Agenda.focus_stack
    strategies,        \* Agenda.strategies
    registered_rules,  \* Agenda.registered_rules
    root,              \* RootNode.children: alpha nodes, each with its memory and terminal
    facts,             \* WorkingMemory.facts: FactId -> handle
    facts_by_type,     \* WorkingMemory.facts_by_type: type tag -> handles
    wm_recency,        \* WorkingMemory.recency
    fact_counter,      \* FactId::new's static COUNTER
    halted,            \* Session.halted
    pc,                \* position of the session: "idle", or inside match_rules
    activation,        \* match_rules' local `activation` (an Option)
    fired_count,       \* match_rules' local `fired_count`
    fired,             \* names of the rules whose actions ran in the current/last match_rules
    last,              \* the last completed call and what it returned
    hist,              \* names of the first calls made on the session
    flow_rules,        \* Flow.rules of the flow the session was created from
    peer,              \* a second session of the same flow: its working memory,
                       \* agenda and halted flag (its root is the flow's root)
    root_lock          \* whether the write lock of the root's RwLock is held

agenda_vars == <<groups, focus_stack, strategies, registered_rules>>
session_vars == <<root, facts, facts_by_type, wm_recency, fact_counter, halted,
                  pc, activation, fired_count, fired, hist>>
vars == <<groups, focus_stack, strategies, registered_rules, root, facts,
          facts_by_type, wm_recency, fact_counter, halted, pc, activation,
          fired_count, fired, last, hist, flow_rules, peer, root_lock>>
flow_vars == <<flow_rules, peer, root_lock>>

----------------------------------------------------------------------------
\* Bounds of the model

MaxQueue == 3      \* AgendaSpec: activations queued in the agenda at one time
MaxStack == 3      \* length of the focus stack
MaxFacts == 2      \* asserts made on one session
MaxHist == 4       \* calls remembered in hist

----------------------------------------------------------------------------
\* Sequences and options

None == << >>
Some(x) == <<x>>

Top(s) == s[Len(s)]
Front(s) == SubSeq(s, 1, Len(s) - 1)
RemoveAt(s, i) == SubSeq(s, 1, i - 1) \o SubSeq(s, i + 1, Len(s))
Range(s) == {s[i] : i \in DOMAIN s}

RECURSIVE SetMax(_)
SetMax(S) ==
    IF S = {} THEN 0
    ELSE LET x == CHOOSE y \in S : TRUE
             m == SetMax(S \ {x})
         IN IF x > m THEN x ELSE m

----------------------------------------------------------------------------
\* rule.rs

NoAction == [kind |-> "noop", arg |-> ""]
FocusAction(g) == [kind |-> "focus", arg |-> g]
HaltAction == [kind |-> "halt", arg |-> ""]
\* |session, _| { session.assert(fact)?; Ok(()) }, the fact given by its name
AssertAction(fact_name) == [kind |-> "assert", arg |-> fact_name]
\* |session, _| { session.assert(fact)?; Err(..) }
AssertThenErrAction(fact_name) == [kind |-> "assert_err", arg |-> fact_name]

\* Rule::new(name) ... build(): the builder's defaults are priority 0,
\* agenda_group "main", auto_focus false.
Rule(name, patterns, action, priority, agenda_group, auto_focus) ==
    [name |-> name, patterns |-> patterns, action |-> action,
     priority |-> priority, agenda_group |-> agenda_group,
     auto_focus |-> auto_focus]

EmptyMatch == [facts |-> {}]
MatchInsert(m, alias, fact) ==
    [m EXCEPT !.facts = {b \in @ : b.alias # alias} \cup {[alias |-> alias, fact |-> fact]}]

Activation(rule, match_data, recency) ==
    [rule |-> rule, match_data |-> match_data, recency |-> recency]

Salience(a) == a.rule.priority

----------------------------------------------------------------------------
\* agenda.rs: conflict resolution

DefaultStrategies == <<"Salience", "ActivationRecency">>

Cmp(x, y) == IF x < y THEN -1 ELSE IF x > y THEN 1 ELSE 0

MaxFactRecency(a) == SetMax({b.fact.recency : b \in a.match_data.facts})

\* A mutant of StrategyOrd: lower salience wins.
StrategyOrdLowSalienceWins(strategy, self, other) ==
    CASE strategy = "Salience" -> Cmp(Salience(other), Salience(self))
      [] strategy = "ActivationRecency" -> Cmp(self.recency, other.recency)
      [] strategy = "FactRecency" -> Cmp(MaxFactRecency(self), MaxFactRecency(other))

\* A mutant of StrategyOrd: the older activation wins (FIFO).
StrategyOrdOldestWins(strategy, self, other) ==
    CASE strategy = "Salience" -> Cmp(Salience(self), Salience(other))
      [] strategy = "ActivationRecency" -> Cmp(other.recency, self.recency)
      [] strategy = "FactRecency" -> Cmp(MaxFactRecency(self), MaxFactRecency(other))

\* One arm of the match in ActivationWrapper::compare.
StrategyOrd(strategy, self, other) ==
    CASE strategy = "Salience" -> Cmp(Salience(self), Salience(other))
      [] strategy = "ActivationRecency" -> Cmp(self.recency, other.recency)
      [] strategy = "FactRecency" -> Cmp(MaxFactRecency(self), MaxFactRecency(other))

\* ActivationWrapper::compare: the first strategy that tells the two apart decides.
RECURSIVE Compare(_, _, _)
Compare(self, other, strats) ==
    IF strats = << >> THEN 0
    ELSE LET ord == StrategyOrd(Head(strats), self, other)
         IN IF ord # 0 THEN ord ELSE Compare(self, other, Tail(strats))

\* AgendaGroup::insert: BinaryHeap::push.  The queue is kept in insertion order.
GroupInsert(queue, act) == Append(queue, act)

\* A mutant of GroupPopChoices: the queue is first in, first out.
GroupPopFifo(queue, strats) == IF queue = << >> THEN {} ELSE {1}

\* AgendaGroup::pop: BinaryHeap::pop takes a greatest element; which one of
\* several equal ones is not determined by the ordering.
GroupPopChoices(queue, strats) ==
    {i \in DOMAIN queue : \A j \in DOMAIN queue : Compare(queue[i], queue[j], strats) >= 0}

----------------------------------------------------------------------------
\* agenda.rs: Agenda, as operators over a record of its four fields

Ag == [groups |-> groups, focus_stack |-> focus_stack,
       strategies |-> strategies, registered_rules |-> registered_rules]

HasGroup(ag, name) == name \in DOMAIN ag.groups

AddAgendaGroup(ag, name) ==
    IF ~HasGroup(ag, name)
    THEN [ag EXCEPT !.groups = (name :> << >>) @@ @]
    ELSE ag

GetFocused(ag) ==
    IF ag.focus_stack = << >> THEN None ELSE Some(Top(ag.focus_stack))

\* A mutant of SetFocus: the group is pushed whether or not it is on top.
SetFocusAlwaysPush(ag, name) ==
    IF ~HasGroup(ag, name)
    THEN [ok |-> FALSE, ag |-> ag]
    ELSE [ok |-> TRUE, ag |-> [ag EXCEPT !.focus_stack = Append(@, name)]]

\* A mutant of SetFocus: the group is pushed before the group map is looked at.
SetFocusPushBeforeCheck(ag, name) ==
    LET pushed == IF GetFocused(ag) # Some(name)
                  THEN [ag EXCEPT !.focus_stack = Append(@, name)]
                  ELSE ag
    IN [ok |-> HasGroup(ag, name), ag |-> pushed]

\* Agenda::set_focus: [ok, ag]
SetFocus(ag, name) ==
    IF ~HasGroup(ag, name)
    THEN [ok |-> FALSE, ag |-> ag]
    ELSE [ok |-> TRUE,
          ag |-> IF GetFocused(ag) # Some(name)
                 THEN [ag EXCEPT !.focus_stack = Append(@, name)]
                 ELSE ag]

\* Agenda::with_strategies
NewAgenda(strats) ==
    LET empty == [groups |-> << >>, focus_stack |-> << >>,
                  strategies |-> strats, registered_rules |-> {}]
    IN SetFocus(AddAgendaGroup(empty, "main"), "main").ag

\* Agenda::register_rule; agenda_group is an Option
RegisterRule(ag, rule_name, agenda_group) ==
    LET ag1 == [ag EXCEPT !.registered_rules = @ \cup {rule_name}]
    IN IF agenda_group # None THEN AddAgendaGroup(ag1, agenda_group[1]) ELSE ag1

\* A mutant of Insert: the auto_focus flag is ignored.
InsertWithoutAutoFocus(ag, act) ==
    LET group_name == act.rule.agenda_group
        ag1 == AddAgendaGroup(ag, group_name)
    IN [ok |-> TRUE, ag |-> [ag1 EXCEPT !.groups[group_name] = GroupInsert(@, act)]]

\* Agenda::insert: [ok, ag]
Insert(ag, act) ==
    LET group_name == act.rule.agenda_group
        ag1 == IF ~HasGroup(ag, group_name) THEN AddAgendaGroup(ag, group_name) ELSE ag
        ag2 == [ag1 EXCEPT !.groups[group_name] = GroupInsert(@, act)]
    IN IF act.rule.auto_focus
       THEN SetFocus(ag2, group_name)
       ELSE [ok |-> TRUE, ag |-> ag2]

\* A mutant of Pop: the activation is taken from any group that has one,
\* whether or not it is on the focus stack.
PopFromAnyGroup(ag) ==
    IF \A g \in DOMAIN ag.groups : ag.groups[g] = << >>
    THEN {[val |-> None, ag |-> ag]}
    ELSE UNION {{[val |-> Some(ag.groups[g][i]),
                  ag |-> [ag EXCEPT !.groups[g] = RemoveAt(@, i)]] :
                     i \in GroupPopChoices(ag.groups[g], ag.strategies)} :
                g \in {h \in DOMAIN ag.groups : ag.groups[h] # << >>}}

\* A mutant of Pop: an empty group on top is not removed; pop gives up.
PopTopOnly(ag) ==
    IF ag.focus_stack = << >> THEN {[val |-> None, ag |-> ag]}
    ELSE LET focused == Top(ag.focus_stack)
         IN IF HasGroup(ag, focused) /\ ag.groups[focused] # << >>
            THEN {[val |-> Some(ag.groups[focused][i]),
                   ag |-> [ag EXCEPT !.groups[focused] = RemoveAt(@, i)]] :
                      i \in GroupPopChoices(ag.groups[focused], ag.strategies)}
            ELSE {[val |-> None, ag |-> ag]}

\* Agenda::pop: the set of possible [val, ag]; val is the Option returned.
RECURSIVE Pop(_)
Pop(ag) ==
    IF ag.focus_stack = << >> THEN {[val |-> None, ag |-> ag]}
    ELSE LET focused == Top(ag.focus_stack)
         IN IF HasGroup(ag, focused) /\ ag.groups[focused] # << >>
            THEN {[val |-> Some(ag.groups[focused][i]),
                   ag |-> [ag EXCEPT !.groups[focused] = RemoveAt(@, i)]] :
                      i \in GroupPopChoices(ag.groups[focused], ag.strategies)}
            ELSE IF focused # "main"
                 THEN Pop([ag EXCEPT !.focus_stack = Front(@)])
                 ELSE {[val |-> None, ag |-> ag]}

\* A mutant of IsEmpty: only the group on top of the focus stack is looked at.
IsEmptyTopOnly(ag) ==
    \/ ag.focus_stack = << >>
    \/ ~HasGroup(ag, Top(ag.focus_stack))
    \/ ag.groups[Top(ag.focus_stack)] = << >>

\* Agenda::is_empty
IsEmpty(ag) ==
    \A i \in DOMAIN ag.focus_stack :
        HasGroup(ag, ag.focus_stack[i]) => ag.groups[ag.focus_stack[i]] = << >>

\* Agenda::clear
Clear(ag) ==
    IF DOMAIN ag.groups = {} THEN ag
    ELSE [ag EXCEPT !.groups = [g \in DOMAIN @ |-> << >>]]

\* Agenda::dispose
Dispose(ag) ==
    [Clear(ag) EXCEPT !.groups = << >>, !.focus_stack = << >>,
                      !.registered_rules = {}]

SetAgenda(ag) ==
    /\ groups' = ag.groups
    /\ focus_stack' = ag.focus_stack
    /\ strategies' = ag.strategies
    /\ registered_rules' = ag.registered_rules

RECURSIVE QueuedIn(_, _)
QueuedIn(ag, names) ==
    IF names = {} THEN 0
    ELSE LET g == CHOOSE h \in names : TRUE
         IN Len(ag.groups[g]) + QueuedIn(ag, names \ {g})

\* the number of activations queued in all groups
Queued(ag) == QueuedIn(ag, DOMAIN ag.groups)

----------------------------------------------------------------------------
\* fact.rs, working_memory.rs: WorkingMemory, as operators over a record
\* [facts, facts_by_type, recency]; `counter` is FactId::new's static COUNTER.

Restrict(f, S) == IF S = {} THEN << >> ELSE [k \in S |-> f[k]]
Retain(s, Keep(_)) == SelectSeq(s, Keep)

\* WorkingMemory::new
NewWorkingMemory == [facts |-> << >>, facts_by_type |-> << >>, recency |-> 0]

\* FactHandle::new with the id FactId::new() draws
FactHandle(id, fact, recency) ==
    [id |-> id, fact |-> fact, type_id |-> fact.type, recency |-> recency]

\* A mutant of TypeIndexPush: the handle is put at the front of the vector.
TypeIndexPushFront(index, handle) ==
    IF handle.type_id \in DOMAIN index
    THEN [index EXCEPT ![handle.type_id] = <<handle>> \o @]
    ELSE (handle.type_id :> <<handle>>) @@ index

\* entry(type_id).or_insert_with(Vec::new).push(handle)
TypeIndexPush(index, handle) ==
    IF handle.type_id \in DOMAIN index
    THEN [index EXCEPT ![handle.type_id] = Append(@, handle)]
    ELSE (handle.type_id :> <<handle>>) @@ index

\* A mutant of WmAssert: the id is the number of stored facts plus one, so
\* the id of a retracted fact is given out again.
WmAssertReusingId(wm, counter, fact) ==
    LET handle == FactHandle(Cardinality(DOMAIN wm.facts) + 1, fact, wm.recency)
    IN [handle |-> handle,
        wm |-> [facts |-> (handle.id :> handle) @@ wm.facts,
                facts_by_type |-> TypeIndexPush(wm.facts_by_type, handle),
                recency |-> wm.recency + 1]]

\* WorkingMemory::assert: [handle, wm]
WmAssert(wm, counter, fact) ==
    LET handle == FactHandle(counter, fact, wm.recency)
    IN [handle |-> handle,
        wm |-> [facts |-> (handle.id :> handle) @@ wm.facts,
                facts_by_type |-> TypeIndexPush(wm.facts_by_type, handle),
                recency |-> wm.recency + 1]]

\* A mutant of WmRetract: the type index is left as it was.
WmRetractPrimaryOnly(wm, fact_id) ==
    IF fact_id \notin DOMAIN wm.facts
    THEN [ok |-> FALSE, handle |-> None, wm |-> wm]
    ELSE [ok |-> TRUE, handle |-> Some(wm.facts[fact_id]),
          wm |-> [wm EXCEPT !.facts = Restrict(@, DOMAIN @ \ {fact_id})]]

\* A mutant of WmRetract: the primary map is left as it was.
WmRetractTypeIndexOnly(wm, fact_id) ==
    IF fact_id \notin DOMAIN wm.facts
    THEN [ok |-> FALSE, handle |-> None, wm |-> wm]
    ELSE LET handle == wm.facts[fact_id]
             Keep(f) == f.id # fact_id
         IN [ok |-> TRUE, handle |-> Some(handle),
             wm |-> [wm EXCEPT
                       !.facts_by_type =
                           IF handle.type_id \in DOMAIN @
                           THEN [@ EXCEPT ![handle.type_id] = Retain(@, Keep)]
                           ELSE @]]

\* WorkingMemory::retract: [ok, handle, wm]; not ok is FactNotFound
WmRetract(wm, fact_id) ==
    IF fact_id \notin DOMAIN wm.facts
    THEN [ok |-> FALSE, handle |-> None, wm |-> wm]
    ELSE LET handle == wm.facts[fact_id]
             Keep(f) == f.id # fact_id
         IN [ok |-> TRUE, handle |-> Some(handle),
             wm |-> [wm EXCEPT
                       !.facts = Restrict(@, DOMAIN @ \ {fact_id}),
                       !.facts_by_type =
                           IF handle.type_id \in DOMAIN @
                           THEN [@ EXCEPT ![handle.type_id] = Retain(@, Keep)]
                           ELSE @]]

\* A mutant of WmModify: the old handle stays in the type index.
WmModifyAppendOnly(wm, fact_id) ==
    IF fact_id \notin DOMAIN wm.facts
    THEN [ok |-> FALSE, handle |-> None, wm |-> wm]
    ELSE LET old_handle == wm.facts[fact_id]
             new_handle == [old_handle EXCEPT !.recency = wm.recency]
         IN [ok |-> TRUE, handle |-> Some(new_handle),
             wm |-> [facts |-> (fact_id :> new_handle) @@ wm.facts,
                     facts_by_type |-> TypeIndexPush(wm.facts_by_type, new_handle),
                     recency |-> wm.recency + 1]]

\* A mutant of WmModify: the recency counter is advanced before the fact is
\* looked up.
WmModifyBumpingFirst(wm, fact_id) ==
    LET bumped == [wm EXCEPT !.recency = @ + 1]
    IN IF fact_id \notin DOMAIN wm.facts
       THEN [ok |-> FALSE, handle |-> None, wm |-> bumped]
       ELSE LET old_handle == wm.facts[fact_id]
                new_handle == [old_handle EXCEPT !.recency = wm.recency]
                Keep(f) == f.id # fact_id
            IN [ok |-> TRUE, handle |-> Some(new_handle),
                wm |-> [facts |-> (fact_id :> new_handle) @@ wm.facts,
                        facts_by_type |->
                            TypeIndexPush([wm.facts_by_type EXCEPT
                                             ![old_handle.type_id] = Retain(@, Keep)],
                                          new_handle),
                        recency |-> wm.recency + 1]]

\* A mutant of WmModify: the new handle keeps the old handle's recency.
WmModifyKeepingRecency(wm, fact_id) ==
    IF fact_id \notin DOMAIN wm.facts
    THEN [ok |-> FALSE, handle |-> None, wm |-> wm]
    ELSE LET old_handle == wm.facts[fact_id]
         IN [ok |-> TRUE, handle |-> Some(old_handle), wm |-> wm]

\* WorkingMemory::modify: [ok, handle, wm]; not ok is FactNotFound
WmModify(wm, fact_id) ==
    LET r == WmRetract(wm, fact_id)
    IN IF ~r.ok THEN r
       ELSE LET old_handle == r.handle[1]
                new_handle == [id |-> old_handle.id, fact |-> old_handle.fact,
                               type_id |-> old_handle.type_id,
                               recency |-> r.wm.recency]
            IN [ok |-> TRUE, handle |-> Some(new_handle),
                wm |-> [facts |-> (fact_id :> new_handle) @@ r.wm.facts,
                        facts_by_type |-> TypeIndexPush(r.wm.facts_by_type, new_handle),
                        recency |-> r.wm.recency + 1]]

\* WorkingMemory::get, get_by_type, len
WmGet(wm, fact_id) ==
    IF fact_id \in DOMAIN wm.facts THEN Some(wm.facts[fact_id]) ELSE None
WmGetByType(wm, type_id) ==
    IF type_id \in DOMAIN wm.facts_by_type THEN wm.facts_by_type[type_id] ELSE << >>
WmLen(wm) == Cardinality(DOMAIN wm.facts)

\* WorkingMemory::clear (dispose is clear)
WmClear(wm) == [wm EXCEPT !.facts = << >>, !.facts_by_type = << >>]

----------------------------------------------------------------------------
\* constraint.rs, pattern.rs

FunctionConstraint(description) == [kind |-> "function", description |-> description]

\* The closures the flows of this model use; with_filter's closure is
\* downcast_ref::<T>().map(f).unwrap_or(false).
ApplyFilter(description, handle) ==
    CASE description = "count < 5" ->
            handle.type_id = "Message" /\ handle.fact.count < 5
      [] OTHER -> FALSE

\* Constraint::evaluate
RECURSIVE Evaluate(_, _)
Evaluate(c, handle) ==
    CASE c.kind = "function" -> ApplyFilter(c.description, handle)
      [] c.kind = "and" -> \A i \in DOMAIN c.constraints : Evaluate(c.constraints[i], handle)
      [] c.kind = "or" -> \E i \in DOMAIN c.constraints : Evaluate(c.constraints[i], handle)
      [] c.kind = "not" -> ~Evaluate(c.constraint, handle)

ObjectPattern(alias, type, constraints) ==
    [kind |-> "object", alias |-> alias, type |-> type, constraints |-> constraints]
NotPattern(pattern) == [kind |-> "not", pattern |-> pattern]
ExistsPattern(pattern) == [kind |-> "exists", pattern |-> pattern]

\* Pattern::matches for ObjectPattern, NotPattern, ExistsPattern
RECURSIVE Matches(_, _)
Matches(p, handle) ==
    CASE p.kind = "object" ->
            IF handle.type_id # p.type THEN FALSE
            ELSE \A i \in DOMAIN p.constraints : Evaluate(p.constraints[i], handle)
      [] p.kind = "not" -> ~Matches(p.pattern, handle)
      [] p.kind = "exists" -> Matches(p.pattern, handle)

\* Pattern::type_id
RECURSIVE PatternTypeId(_)
PatternTypeId(p) == IF p.kind = "object" THEN p.type ELSE PatternTypeId(p.pattern)

\* Pattern::alias
RECURSIVE Alias(_)
Alias(p) == IF p.kind = "object" THEN p.alias ELSE Alias(p.pattern)

----------------------------------------------------------------------------
\* node.rs: every event returns [node, acts]

\* TerminalNode::new
TerminalNode(rule) == [rule |-> rule, recency |-> 0]

\* A mutant of TerminalAssertFact: the recency counter is read and not
\* advanced.
TerminalAssertFactKeepingRecency(node, fact) ==
    LET match_data == IF node.rule.patterns # << >>
                      THEN MatchInsert(EmptyMatch, Alias(node.rule.patterns[1]), fact)
                      ELSE EmptyMatch
    IN [node |-> node,
        acts |-> <<Activation(node.rule, match_data, node.recency)>>]

\* A mutant of TerminalAssertFact: the binding is keyed by the alias of the
\* rule's last pattern.
TerminalAssertFactLastAlias(node, fact) ==
    LET match_data == IF node.rule.patterns # << >>
                      THEN MatchInsert(EmptyMatch,
                                       Alias(node.rule.patterns[Len(node.rule.patterns)]), fact)
                      ELSE EmptyMatch
    IN [node |-> [node EXCEPT !.recency = @ + 1],
        acts |-> <<Activation(node.rule, match_data, node.recency)>>]

\* TerminalNode::assert_fact
TerminalAssertFact(node, fact) ==
    LET match_data == IF node.rule.patterns # << >>
                      THEN MatchInsert(EmptyMatch, Alias(node.rule.patterns[1]), fact)
                      ELSE EmptyMatch
    IN [node |-> [node EXCEPT !.recency = @ + 1],
        acts |-> <<Activation(node.rule, match_data, node.recency)>>]

\* TerminalNode::retract_fact
TerminalRetractFact(node, fact) == [node |-> node, acts |-> << >>]

\* for child in &mut self.children { activations.extend(child.assert_fact(..)) }
\* over an alpha node's children, which are terminals
RECURSIVE TerminalsAssertFact(_, _)
TerminalsAssertFact(children, fact) ==
    IF children = << >> THEN [nodes |-> << >>, acts |-> << >>]
    ELSE LET h == TerminalAssertFact(Head(children), fact)
             t == TerminalsAssertFact(Tail(children), fact)
         IN [nodes |-> <<h.node>> \o t.nodes, acts |-> h.acts \o t.acts]

RECURSIVE TerminalsRetractFact(_, _)
TerminalsRetractFact(children, fact) ==
    IF children = << >> THEN [nodes |-> << >>, acts |-> << >>]
    ELSE LET h == TerminalRetractFact(Head(children), fact)
             t == TerminalsRetractFact(Tail(children), fact)
         IN [nodes |-> <<h.node>> \o t.nodes, acts |-> h.acts \o t.acts]

\* AlphaNode::new, add_child
AlphaNode(pattern, children) ==
    [pattern |-> pattern, children |-> children, memory |-> << >>]

\* A mutant of AlphaAssertFact: the fact is passed on whether or not the
\* pattern matches it.
AlphaAssertFactUnfiltered(node, fact) ==
    LET c == TerminalsAssertFact(node.children, fact)
    IN [node |-> [node EXCEPT !.memory = Append(@, fact), !.children = c.nodes],
        acts |-> c.acts]

\* AlphaNode::assert_fact
AlphaAssertFact(node, fact) ==
    IF Matches(node.pattern, fact)
    THEN LET c == TerminalsAssertFact(node.children, fact)
         IN [node |-> [node EXCEPT !.memory = Append(@, fact), !.children = c.nodes],
             acts |-> c.acts]
    ELSE [node |-> node, acts |-> << >>]

\* A mutant of AlphaRetractFact: the memory is left as it is.
AlphaRetractFactKeepingMemory(node, fact) ==
    LET c == TerminalsRetractFact(node.children, fact)
    IN [node |-> [node EXCEPT !.children = c.nodes], acts |-> c.acts]

\* AlphaNode::retract_fact
AlphaRetractFact(node, fact) ==
    LET Keep(f) == f.id # fact.id
        c == TerminalsRetractFact(node.children, fact)
    IN [node |-> [node EXCEPT !.memory = Retain(@, Keep), !.children = c.nodes],
        acts |-> c.acts]

\* RootNode::assert_fact: [root, acts]
RECURSIVE RootAssertFact(_, _)
RootAssertFact(children, fact) ==
    IF children = << >> THEN [root |-> << >>, acts |-> << >>]
    ELSE LET h == AlphaAssertFact(Head(children), fact)
             t == RootAssertFact(Tail(children), fact)
         IN [root |-> <<h.node>> \o t.root, acts |-> h.acts \o t.acts]

\* RootNode::retract_fact: [root, acts]
RECURSIVE RootRetractFact(_, _)
RootRetractFact(children, fact) ==
    IF children = << >> THEN [root |-> << >>, acts |-> << >>]
    ELSE LET h == AlphaRetractFact(Head(children), fact)
             t == RootRetractFact(Tail(children), fact)
         IN [root |-> <<h.node>> \o t.root, acts |-> h.acts \o t.acts]

\* A mutant of RootModifyFact: the fact is retracted and not asserted again.
RootModifyFactRetractOnly(children, fact) == RootRetractFact(children, fact)

\* Node::modify_fact (the default, which RootNode keeps): retract, then assert
RootModifyFact(children, fact) ==
    LET r == RootRetractFact(children, fact)
        a == RootAssertFact(r.root, fact)
    IN [root |-> a.root, acts |-> r.acts \o a.acts]

----------------------------------------------------------------------------
\* flow.rs: a flow is [rules, root, strategies]

\* Flow::new
NewFlow == [rules |-> << >>, root |-> << >>, strategies |-> DefaultStrategies]

\* Flow::build_network_for_rule: one alpha -> terminal chain per pattern
RECURSIVE BuildNetworkForRule(_, _, _)
BuildNetworkForRule(children, rule, patterns) ==
    IF patterns = << >> THEN children
    ELSE BuildNetworkForRule(
             Append(children, AlphaNode(Head(patterns), <<TerminalNode(rule)>>)),
             rule, Tail(patterns))

\* A mutant of AddRule: the network is built before the name is checked.
AddRuleBuildingFirst(flow, rule) ==
    IF rule.name \in DOMAIN flow.rules
    THEN [ok |-> FALSE,
          flow |-> [flow EXCEPT !.root = BuildNetworkForRule(@, rule, rule.patterns)]]
    ELSE [ok |-> TRUE,
          flow |-> [flow EXCEPT
                      !.root = BuildNetworkForRule(@, rule, rule.patterns),
                      !.rules = (rule.name :> rule) @@ @]]

\* Flow::add_rule: [ok, flow]; not ok is Compilation
AddRule(flow, rule) ==
    IF rule.name \in DOMAIN flow.rules
    THEN [ok |-> FALSE, flow |-> flow]
    ELSE [ok |-> TRUE,
          flow |-> [flow EXCEPT
                      !.root = BuildNetworkForRule(@, rule, rule.patterns),
                      !.rules = (rule.name :> rule) @@ @]]

\* flow.add_rule(r1)?; flow.add_rule(r2)?; ...
RECURSIVE AddRules(_, _)
AddRules(flow, rs) ==
    IF rs = << >> THEN flow ELSE AddRules(AddRule(flow, Head(rs)).flow, Tail(rs))

----------------------------------------------------------------------------
\* session.rs: Session, as operators over a record
\* [working_memory, agenda, root, halted, counter]; each call returns [ok, val, s]

Sess == [working_memory |-> [facts |-> facts, facts_by_type |-> facts_by_type,
                             recency |-> wm_recency],
         agenda |-> Ag, root |-> root, halted |-> halted, counter |-> fact_counter]

SetSession(s) ==
    /\ SetAgenda(s.agenda)
    /\ facts' = s.working_memory.facts
    /\ facts_by_type' = s.working_memory.facts_by_type
    /\ wm_recency' = s.working_memory.recency
    /\ root' = s.root
    /\ halted' = s.halted
    /\ fact_counter' = s.counter

\* Session::new, as Flow::session calls it
NewSession(flow) ==
    [working_memory |-> NewWorkingMemory, agenda |-> NewAgenda(flow.strategies),
     root |-> flow.root, halted |-> FALSE, counter |-> 1]

\* the fields of a session that are its own; `root` is an Arc to the flow's
\* RootNode (Arc::clone(&self.root) in Flow::session) and the FactId counter
\* is a static of the process
Private(s) ==
    [working_memory |-> s.working_memory, agenda |-> s.agenda, halted |-> s.halted]

\* the second session, read through the flow's root
PeerSess ==
    [working_memory |-> peer.working_memory, agenda |-> peer.agenda, root |-> root,
     halted |-> peer.halted, counter |-> fact_counter]

\* the flow the sessions were created from
TheFlow == [rules |-> flow_rules, root |-> root, strategies |-> DefaultStrategies]

\* for activation in activations { self.agenda.insert(activation)?; }
RECURSIVE InsertAll(_, _)
InsertAll(ag, acts) ==
    IF acts = << >> THEN [ok |-> TRUE, ag |-> ag]
    ELSE LET r == Insert(ag, Head(acts))
         IN IF ~r.ok THEN r ELSE InsertAll(r.ag, Tail(acts))

\* Session::assert
SessionAssert(s, fact) ==
    LET w == WmAssert(s.working_memory, s.counter, fact)
        n == RootAssertFact(s.root, w.handle)
        i == InsertAll(s.agenda, n.acts)
    IN [ok |-> i.ok, val |-> Some(w.handle.id),
        s |-> [s EXCEPT !.working_memory = w.wm, !.counter = @ + 1,
                        !.root = n.root, !.agenda = i.ag]]

\* the activations of ag's queues that are not bound to fact_id
WithoutFact(ag, fact_id) ==
    LET Keep(a) == \A b \in a.match_data.facts : b.fact.id # fact_id
    IN [ag EXCEPT !.groups = [g \in DOMAIN @ |-> Retain(@[g], Keep)]]

\* A mutant of SessionRetract: the retracted fact's pending activations are
\* taken off the agenda.
SessionRetractInvalidating(s, fact_id) ==
    LET w == WmRetract(s.working_memory, fact_id)
    IN IF ~w.ok THEN [ok |-> FALSE, val |-> None, s |-> s]
       ELSE LET n == RootRetractFact(s.root, w.handle[1])
            IN [ok |-> TRUE, val |-> None,
                s |-> [s EXCEPT !.working_memory = w.wm, !.root = n.root,
                                !.agenda = WithoutFact(@, fact_id)]]

\* Session::retract: the activations root.retract_fact returns are dropped
SessionRetract(s, fact_id) ==
    LET w == WmRetract(s.working_memory, fact_id)
    IN IF ~w.ok THEN [ok |-> FALSE, val |-> None, s |-> s]
       ELSE LET n == RootRetractFact(s.root, w.handle[1])
            IN [ok |-> TRUE, val |-> None,
                s |-> [s EXCEPT !.working_memory = w.wm, !.root = n.root]]

\* A mutant of SessionModify: the pending activations of the modified fact
\* are taken off the agenda before the new ones are inserted.
SessionModifyInvalidating(s, fact_id) ==
    LET w == WmModify(s.working_memory, fact_id)
    IN IF ~w.ok THEN [ok |-> FALSE, val |-> None, s |-> s]
       ELSE LET n == RootModifyFact(s.root, w.handle[1])
                i == InsertAll(WithoutFact(s.agenda, fact_id), n.acts)
            IN [ok |-> i.ok, val |-> None,
                s |-> [s EXCEPT !.working_memory = w.wm, !.root = n.root,
                                !.agenda = i.ag]]

\* Session::modify
SessionModify(s, fact_id) ==
    LET w == WmModify(s.working_memory, fact_id)
    IN IF ~w.ok THEN [ok |-> FALSE, val |-> None, s |-> s]
       ELSE LET n == RootModifyFact(s.root, w.handle[1])
                i == InsertAll(s.agenda, n.acts)
            IN [ok |-> i.ok, val |-> None,
                s |-> [s EXCEPT !.working_memory = w.wm, !.root = n.root,
                                !.agenda = i.ag]]

\* Session::focus
SessionFocus(s, group) ==
    LET r == SetFocus(s.agenda, group)
    IN [ok |-> r.ok, val |-> None, s |-> [s EXCEPT !.agenda = r.ag]]

\* Session::halt
SessionHalt(s) == [ok |-> TRUE, val |-> None, s |-> [s EXCEPT !.halted = TRUE]]

\* Session::fact_count
FactCount(s) == WmLen(s.working_memory)

\* the fact an action asserts
ActionFact(fact_name) == [type |-> fact_name, count |-> 0]

\* Rule::fire: runs the rule's action closure on the session
Fire(rule, s, match_data) ==
    CASE rule.action.kind = "noop" -> [ok |-> TRUE, val |-> None, s |-> s]
      [] rule.action.kind = "focus" -> SessionFocus(s, rule.action.arg)
      [] rule.action.kind = "halt" -> SessionHalt(s)
      [] rule.action.kind = "assert" ->
            [SessionAssert(s, ActionFact(rule.action.arg)) EXCEPT !.val = None]
      [] rule.action.kind = "assert_err" ->
            LET r == SessionAssert(s, ActionFact(rule.action.arg))
            IN [ok |-> FALSE, val |-> None, s |-> r.s]

\* Session::match_rules run as one call from session s: the set of its
\* possible outcomes [done, ok, val, fired, s].  done is FALSE when the loop
\* never ends: a pop that returns None leaves the loop's condition as it
\* was, so every later iteration does the same.
RECURSIVE MatchRulesRun(_, _, _)
MatchRulesRun(s, names, fired_cnt) ==
    IF IsEmpty(s.agenda) \/ s.halted
    THEN {[done |-> TRUE, ok |-> TRUE, val |-> Some(fired_cnt), fired |-> names, s |-> s]}
    ELSE UNION {
        IF o.val = None
        THEN {[done |-> FALSE, ok |-> TRUE, val |-> None, fired |-> names,
               s |-> [s EXCEPT !.agenda = o.ag]]}
        ELSE LET r == Fire(o.val[1].rule, [s EXCEPT !.agenda = o.ag], o.val[1].match_data)
                 ran == Append(names, o.val[1].rule.name)
             IN IF ~r.ok
                THEN {[done |-> TRUE, ok |-> FALSE, val |-> None, fired |-> ran, s |-> r.s]}
                ELSE MatchRulesRun(r.s, ran, fired_cnt + 1)
        : o \in Pop(s.agenda)}

\* Session::match_until_halt run as one call from session s
RECURSIVE MatchUntilHaltRun(_, _, _)
MatchUntilHaltRun(s, names, fired_cnt) ==
    IF s.halted
    THEN {[done |-> TRUE, ok |-> TRUE, val |-> Some(fired_cnt), fired |-> names, s |-> s]}
    ELSE UNION {
        IF o.val = None
        THEN {[done |-> TRUE, ok |-> TRUE, val |-> Some(fired_cnt), fired |-> names,
               s |-> [s EXCEPT !.agenda = o.ag]]}
        ELSE LET r == Fire(o.val[1].rule, [s EXCEPT !.agenda = o.ag], o.val[1].match_data)
                 ran == Append(names, o.val[1].rule.name)
             IN IF ~r.ok
                THEN {[done |-> TRUE, ok |-> FALSE, val |-> None, fired |-> ran, s |-> r.s]}
                ELSE MatchUntilHaltRun(r.s, ran, fired_cnt + 1)
        : o \in Pop(s.agenda)}

----------------------------------------------------------------------------
\* The facts and flows of the model

Message(count) == [type |-> "Message", count |-> count]
OtherFact == [type |-> "Other", count |-> 0]
FactInputs == {Message(3), Message(7), OtherFact}

AnyMessage(alias) == ObjectPattern(alias, "Message", << >>)

\* tests/integration_test.rs, test_basic_rule_execution
IncrementRule ==
    Rule("increment",
         <<ObjectPattern("m", "Message", <<FunctionConstraint("count < 5")>>)>>,
         NoAction, 0, "main", FALSE)

\* tests/integration_test.rs, test_multiple_rules_priority
HighRule == Rule("high", <<AnyMessage("m")>>, NoAction, 10, "main", FALSE)
LowRule == Rule("low", <<AnyMessage("m")>>, NoAction, 1, "main", FALSE)

\* tests/integration_test.rs, test_agenda_groups
MainRule == Rule("main_rule", <<AnyMessage("m")>>, NoAction, 0, "main", FALSE)
OtherRule == Rule("other_rule", <<AnyMessage("m")>>, NoAction, 0, "other", FALSE)

\* examples/state_machine.rs, the "B to C" and "B to D" rules
BToC == Rule("B to C", <<AnyMessage("b")>>, FocusAction("B to D"), 0, "B to C", TRUE)
BToD == Rule("B to D", <<AnyMessage("b")>>, NoAction, 0, "B to D", FALSE)

Flows == {<<IncrementRule>>, <<HighRule, LowRule>>, <<MainRule, OtherRule>>, <<BToC, BToD>>}

\* rules whose actions change the session or fail
AnyOther(alias) == ObjectPattern(alias, "Other", << >>)
FailingRule == Rule("failing", <<AnyMessage("m")>>, AssertThenErrAction("Other"), 10, "main", FALSE)
StopperRule == Rule("stopper", <<AnyMessage("m")>>, HaltAction, 10, "main", FALSE)
SpawnRule == Rule("spawn", <<AnyMessage("m")>>, AssertAction("Other"), 5, "main", FALSE)
UrgentRule == Rule("urgent", <<AnyOther("o")>>, NoAction, 10, "main", FALSE)

ActionFlows == {<<FailingRule, LowRule>>, <<StopperRule, LowRule>>,
                <<SpawnRule, UrgentRule, LowRule>>}

FocusNames == {"main", "other", "B to C", "B to D"}

----------------------------------------------------------------------------
\* Spec: one session of one flow

Overflow == <<"more">>
Record(op) ==
    IF hist = Overflow \/ Len(hist) >= MaxHist THEN Overflow ELSE Append(hist, op)

\* `last` keeps what match_rules returned until the next call is made
NoReturn == [op |-> "call", ok |-> TRUE, val |-> None]

\* flow.add_rule(..)? for each rule of one of the flows, then flow.session()
InitWith(flows) ==
    \E rs \in flows :
        LET s == NewSession(AddRules(NewFlow, rs))
        IN /\ flow_rules = AddRules(NewFlow, rs).rules
           /\ root_lock = FALSE
           /\ peer = Private(NewSession(AddRules(NewFlow, rs)))
           /\ groups = s.agenda.groups
           /\ focus_stack = s.agenda.focus_stack
           /\ strategies = s.agenda.strategies
           /\ registered_rules = s.agenda.registered_rules
           /\ root = s.root
           /\ facts = s.working_memory.facts
           /\ facts_by_type = s.working_memory.facts_by_type
           /\ wm_recency = s.working_memory.recency
           /\ fact_counter = s.counter
           /\ halted = s.halted
           /\ pc = "idle"
           /\ activation = None
           /\ fired_count = 0
           /\ fired = << >>
           /\ last = NoReturn
           /\ hist = << >>

Init == InitWith(Flows)

\* a call made by the session's owner, between match_rules calls
Call(op, r) ==
    /\ pc = "idle"
    /\ Len(r.s.agenda.focus_stack) <= MaxStack
    /\ SetSession(r.s)
    /\ last' = NoReturn
    /\ hist' = Record(op)
    /\ fired' = << >>
    /\ fired_count' = 0
    /\ UNCHANGED <<pc, activation, flow_vars>>

CallAssert(fact) ==
    /\ fact_counter <= MaxFacts
    /\ wm_recency <= MaxFacts
    /\ Call("assert", SessionAssert(Sess, fact))

CallRetract(fact_id) == Call("retract", SessionRetract(Sess, fact_id))

CallModify(fact_id) ==
    /\ wm_recency <= MaxFacts
    /\ Call("modify", SessionModify(Sess, fact_id))

CallFocus(group) == Call("focus", SessionFocus(Sess, group))

CallHalt == Call("halt", SessionHalt(Sess))

\* Session::match_rules is entered: let mut fired_count = 0
CallMatchRules ==
    /\ pc = "idle"
    /\ pc' = "test"
    /\ fired_count' = 0
    /\ fired' = << >>
    /\ hist' = Record("match_rules")
    /\ UNCHANGED <<agenda_vars, root, facts, facts_by_type, wm_recency,
                   fact_counter, halted, activation, last, flow_vars>>

\* A mutant of MatchTest: leaving the loop clears `halted`, so that a halt
\* only ends the call it was made in.
MatchTestClearingHalt ==
    /\ pc = "test"
    /\ IF ~IsEmpty(Ag) /\ ~halted
       THEN pc' = "pop" /\ last' = last /\ halted' = halted
       ELSE /\ pc' = "idle"
            /\ halted' = FALSE
            /\ last' = [op |-> "match_rules", ok |-> TRUE, val |-> Some(fired_count)]
    /\ UNCHANGED <<agenda_vars, root, facts, facts_by_type, wm_recency,
                   fact_counter, activation, fired_count, fired, hist,
                   flow_vars>>

\* A mutant of MatchTest: the loop does not look at `halted`.
MatchTestIgnoringHalt ==
    /\ pc = "test"
    /\ IF ~IsEmpty(Ag)
       THEN pc' = "pop" /\ last' = last
       ELSE /\ pc' = "idle"
            /\ last' = [op |-> "match_rules", ok |-> TRUE, val |-> Some(fired_count)]
    /\ UNCHANGED <<agenda_vars, root, facts, facts_by_type, wm_recency,
                   fact_counter, halted, activation, fired_count, fired, hist,
                   flow_vars>>

\* while !self.agenda.is_empty() && !self.halted { ... } Ok(fired_count)
MatchTest ==
    /\ pc = "test"
    /\ IF ~IsEmpty(Ag) /\ ~halted
       THEN pc' = "pop" /\ last' = last
       ELSE /\ pc' = "idle"
            /\ last' = [op |-> "match_rules", ok |-> TRUE, val |-> Some(fired_count)]
    /\ UNCHANGED <<agenda_vars, root, facts, facts_by_type, wm_recency,
                   fact_counter, halted, activation, fired_count, fired, hist,
                   flow_vars>>

\* if let Some(activation) = self.agenda.pop()
MatchPop ==
    /\ pc = "pop"
    /\ \E o \in Pop(Ag) :
          /\ SetAgenda(o.ag)
          /\ activation' = o.val
          /\ pc' = IF o.val = None THEN "test" ELSE "fire"
    /\ UNCHANGED <<root, facts, facts_by_type, wm_recency, fact_counter, halted,
                   fired_count, fired, last, hist, flow_vars>>

\* A mutant of MatchFire: an error of the action is dropped and the loop goes on.
MatchFireSwallowingError ==
    /\ pc = "fire"
    /\ LET a == activation[1]
           r == Fire(a.rule, Sess, a.match_data)
       IN /\ SetSession(r.s)
          /\ fired' = Append(fired, a.rule.name)
          /\ activation' = None
          /\ fired_count' = fired_count + 1
          /\ pc' = "test"
          /\ last' = last
    /\ UNCHANGED <<hist, flow_vars>>

\* activation.rule.fire(self, &activation.match_data)?; fired_count += 1;
MatchFire ==
    /\ pc = "fire"
    /\ LET a == activation[1]
           r == Fire(a.rule, Sess, a.match_data)
       IN /\ SetSession(r.s)
          /\ fired' = Append(fired, a.rule.name)
          /\ activation' = None
          /\ IF r.ok
             THEN /\ fired_count' = fired_count + 1
                  /\ pc' = "test"
                  /\ last' = last
             ELSE /\ fired_count' = fired_count
                  /\ pc' = "idle"
                  /\ last' = [op |-> "match_rules", ok |-> FALSE, val |-> None]
    /\ UNCHANGED <<hist, flow_vars>>

Next ==
    \/ \E fact \in FactInputs : CallAssert(fact)
    \/ \E fact_id \in 1..MaxFacts : CallRetract(fact_id)
    \/ \E fact_id \in 1..MaxFacts : CallModify(fact_id)
    \/ \E group \in FocusNames : CallFocus(group)
    \/ CallHalt
    \/ CallMatchRules
    \/ MatchTest
    \/ MatchPop
    \/ MatchFire

Spec == Init /\ [][Next]_vars

\* ActionSpec: one session of a flow whose actions change the session or fail
ActionInit == InitWith(ActionFlows)

ActionSpec == ActionInit /\ [][Next]_vars

\* The loop of match_rules has no suspension point: once entered it keeps running.
FairSpec == Spec /\ WF_vars(MatchTest) /\ WF_vars(MatchPop) /\ WF_vars(MatchFire)

----------------------------------------------------------------------------
\* AgendaSpec: an Agenda driven through its public operations

StrategyTuples == {DefaultStrategies, <<"Salience">>}

\* agenda.rs, create_test_activation(name, priority, recency), also with a
\* group and the auto_focus flag set on the rule
TestRule(name, priority, agenda_group, auto_focus) ==
    Rule(name, << >>, NoAction, priority, agenda_group, auto_focus)

TestRules == {TestRule("low", 1, "main", FALSE), TestRule("high", 10, "main", FALSE),
              TestRule("low_g1", 1, "g1", FALSE), TestRule("auto_g1", 10, "g1", TRUE)}
TestRecencies == {1, 2}
TestActivations == {Activation(r, EmptyMatch, n) : r \in TestRules, n \in TestRecencies}
TestGroups == {"main", "g1"}

AgendaInit ==
    /\ \E strats \in StrategyTuples : 
          LET ag == NewAgenda(strats)
          IN /\ groups = ag.groups
             /\ focus_stack = ag.focus_stack
             /\ strategies = ag.strategies
             /\ registered_rules = ag.registered_rules
    /\ root = << >>
    /\ facts = << >>
    /\ facts_by_type = << >>
    /\ wm_recency = 0
    /\ fact_counter = 1
    /\ halted = FALSE
    /\ pc = "idle"
    /\ activation = None
    /\ fired_count = 0
    /\ fired = << >>
    /\ last = [op |-> "new", ok |-> TRUE, val |-> None]
    /\ hist = << >>
    /\ flow_rules = NewFlow.rules
    /\ root_lock = FALSE
    /\ peer = Private(NewSession(NewFlow))

AgendaCall(op, ok, val, ag) ==
    /\ Len(ag.focus_stack) <= MaxStack
    /\ Queued(ag) <= MaxQueue
    /\ SetAgenda(ag)
    /\ last' = [op |-> op, ok |-> ok, val |-> val]
    /\ UNCHANGED <<session_vars, flow_vars>>

AgAddAgendaGroup(name) ==
    AgendaCall("add_agenda_group", TRUE, None, AddAgendaGroup(Ag, name))

\* `last` keeps the name asked for and the group that was focused before the call
AgSetFocus(name) ==
    LET r == SetFocus(Ag, name)
    IN AgendaCall("set_focus", r.ok, Some([name |-> name, top |-> GetFocused(Ag)]), r.ag)

AgRegisterRule(rule_name, agenda_group) ==
    AgendaCall("register_rule", TRUE, None, RegisterRule(Ag, rule_name, agenda_group))

AgInsert(act) ==
    LET r == Insert(Ag, act) IN AgendaCall("insert", r.ok, Some(act), r.ag)

AgPop ==
    \E o \in Pop(Ag) : AgendaCall("pop", TRUE, o.val, o.ag)

AgClear == AgendaCall("clear", TRUE, None, Clear(Ag))

AgDispose == AgendaCall("dispose", TRUE, None, Dispose(Ag))

AgendaNext ==
    \/ \E name \in TestGroups : AgAddAgendaGroup(name)
    \/ \E name \in TestGroups : AgSetFocus(name)
    \/ \E g \in {None, Some("g1")} : AgRegisterRule("rule1", g)
    \/ \E act \in TestActivations : AgInsert(act)
    \/ AgPop
    \/ AgClear
    \/ AgDispose

AgendaSpec == AgendaInit /\ [][AgendaNext]_vars

----------------------------------------------------------------------------
\* WmSpec: a WorkingMemory driven through its public operations

Wm == [facts |-> facts, facts_by_type |-> facts_by_type, recency |-> wm_recency]

WmInit ==
    /\ LET ag == NewAgenda(DefaultStrategies)
       IN /\ groups = ag.groups
          /\ focus_stack = ag.focus_stack
          /\ strategies = ag.strategies
          /\ registered_rules = ag.registered_rules
    /\ root = << >>
    /\ facts = NewWorkingMemory.facts
    /\ facts_by_type = NewWorkingMemory.facts_by_type
    /\ wm_recency = NewWorkingMemory.recency
    /\ fact_counter = 1
    /\ halted = FALSE
    /\ pc = "idle"
    /\ activation = None
    /\ fired_count = 0
    /\ fired = << >>
    /\ last = [op |-> "new", ok |-> TRUE, val |-> None, id |-> 0]
    /\ hist = << >>
    /\ flow_rules = NewFlow.rules
    /\ root_lock = FALSE
    /\ peer = Private(NewSession(NewFlow))

\* `last` keeps the call, the FactId it was about and the handle it returned
WmCall(op, id, ok, val, wm, counter) ==
    /\ facts' = wm.facts
    /\ facts_by_type' = wm.facts_by_type
    /\ wm_recency' = wm.recency
    /\ fact_counter' = counter
    /\ last' = [op |-> op, ok |-> ok, val |-> val, id |-> id]
    /\ UNCHANGED <<agenda_vars, root, halted, pc, activation, fired_count, fired, hist,
                   flow_vars>>

WmCallAssert(fact) ==
    /\ fact_counter <= MaxFacts
    /\ wm_recency <= MaxFacts
    /\ LET r == WmAssert(Wm, fact_counter, fact)
       IN WmCall("assert", r.handle.id, TRUE, Some(r.handle), r.wm, fact_counter + 1)

WmCallRetract(fact_id) ==
    LET r == WmRetract(Wm, fact_id)
    IN WmCall("retract", fact_id, r.ok, r.handle, r.wm, fact_counter)

WmCallModify(fact_id) ==
    /\ wm_recency <= MaxFacts
    /\ LET r == WmModify(Wm, fact_id)
       IN WmCall("modify", fact_id, r.ok, r.handle, r.wm, fact_counter)

WmCallClear == WmCall("clear", 0, TRUE, None, WmClear(Wm), fact_counter)

WmNext ==
    \/ \E fact \in FactInputs : WmCallAssert(fact)
    \/ \E fact_id \in 1..MaxFacts : WmCallRetract(fact_id)
    \/ \E fact_id \in 1..MaxFacts : WmCallModify(fact_id)
    \/ WmCallClear

WmSpec == WmInit /\ [][WmNext]_vars

----------------------------------------------------------------------------
\* Readings of the state used by the properties

\* the places <<type tag, position>> of the type index
TypeIndexEntries(wm) ==
    UNION {{<<ty, i>> : i \in DOMAIN wm.facts_by_type[ty]} : ty \in DOMAIN wm.facts_by_type}

\* the places of the type index that hold a handle with this FactId
TypeIndexEntriesOf(wm, fact_id) ==
    {e \in TypeIndexEntries(wm) : wm.facts_by_type[e[1]][e[2]].id = fact_id}

\* every handle get_by_type can return, over all types
TypeIndexHandles(wm) ==
    {wm.facts_by_type[e[1]][e[2]] : e \in TypeIndexEntries(wm)}

\* the rules of the flow, in the order their alpha chains were added
RootRules == [i \in DOMAIN root |-> root[i].children[1].rule]

\* some terminal has emitted an activation
Emitted == \E i \in DOMAIN root : \E j \in DOMAIN root[i].children :
               root[i].children[j].recency > 0

\* no rule action of the flow asserts or modifies a fact
NoActionInserts ==
    \A i \in DOMAIN root : \A j \in DOMAIN root[i].children :
        root[i].children[j].rule.action.kind \in {"noop", "focus", "halt"}

NonEmptyGroup(g) == g \in DOMAIN groups /\ groups[g] # << >>

IsPrefix(s, t) == Len(s) <= Len(t) /\ SubSeq(t, 1, Len(s)) = s

\* match_rules has returned Ok(n)
MatchRulesReturned(n) ==
    pc = "idle" /\ last.op = "match_rules" /\ last.ok /\ last.val = Some(n)

----------------------------------------------------------------------------
\* Properties

\* C1: match_rules runs to quiescence: when no rule action inserts
\* activations, a match_rules that has been entered returns, and when it
\* returns Ok on a session that is not halted the agenda is empty.
MatchRulesRunsToQuiescence ==
    /\ (pc # "idle" /\ NoActionInserts) ~> (pc = "idle")
    /\ [](pc = "idle" /\ last.op = "match_rules" /\ last.ok /\ ~halted => IsEmpty(Ag))

\* C2: a pop that returns None leaves an agenda for which is_empty() holds.
PopNoneImpliesIsEmpty ==
    (last.op = "pop" /\ last.val = None) => IsEmpty(Ag)

\* C3: if is_empty() is true then the next pop() returns None.
IsEmptyImpliesPopNone ==
    IsEmpty(Ag) => \A o \in Pop(Ag) : o.val = None

IsEmptyImpliesPopNoneWitness ==
    /\ last.op = "pop" /\ last.val = None
    /\ IsEmpty(Ag)
    /\ Queued(Ag) > 0

\* C4: under the default strategies, when pop() has returned an activation
\* taken from group G, no activation still queued in G has a strictly
\* greater salience.
PopTakesHighestSalience ==
    (strategies = DefaultStrategies /\ last.op = "pop" /\ last.val # None) =>
        \A b \in Range(groups[last.val[1].rule.agenda_group]) :
            Salience(b) <= Salience(last.val[1])

PopTakesHighestSalienceWitness ==
    /\ strategies = DefaultStrategies /\ last.op = "pop" /\ last.val # None
    /\ \E b \in Range(groups[last.val[1].rule.agenda_group]) :
           Salience(b) < Salience(last.val[1]) /\ b.recency > last.val[1].recency

\* C5: under the default strategies, when pop() has returned an activation
\* taken from group G, no activation of the same salience still queued in G
\* has a larger activation recency.
PopTakesLatestAmongEqualSalience ==
    (strategies = DefaultStrategies /\ last.op = "pop" /\ last.val # None) =>
        \A b \in Range(groups[last.val[1].rule.agenda_group]) :
            Salience(b) = Salience(last.val[1]) => b.recency <= last.val[1].recency

PopTakesLatestAmongEqualSalienceWitness ==
    /\ strategies = DefaultStrategies /\ last.op = "pop" /\ last.val # None
    /\ \E b \in Range(groups[last.val[1].rule.agenda_group]) :
           Salience(b) = Salience(last.val[1]) /\ b.recency < last.val[1].recency

\* C6: retract before match: after assert(f) of a fact a rule matches,
\* retract of f's id and nothing else, match_rules fires nothing and returns
\* 0, and fact_count() is 0.
RetractBeforeMatchFiresNothing ==
    (/\ hist = <<"assert", "retract", "match_rules">>
     /\ pc = "idle"
     /\ Emitted
     /\ DOMAIN facts = {}) =>
        /\ last.op = "match_rules" /\ last.ok /\ last.val = Some(0)
        /\ fired = << >>
        /\ FactCount(Sess) = 0

\* C7: Session.retract(id) leaves the agenda, every group's queue and the
\* focus stack, exactly as it was, for every id and in every state of the
\* session.
RetractLeavesAgenda ==
    \A fact_id \in 1..MaxFacts : SessionRetract(Sess, fact_id).s.agenda = Ag

\* a retract has just removed the one fact, whose activation is still queued
RetractLeavesAgendaWitness ==
    /\ hist = <<"assert", "retract">>
    /\ DOMAIN facts = {}
    /\ \E g \in DOMAIN groups : \E i \in DOMAIN groups[g] :
           \E b \in groups[g][i].match_data.facts : b.fact.id = 1

\* C8: match_rules fires only activations whose group is on the focus
\* stack, and while it runs the activations queued in groups that are not on
\* the stack stay queued; in the flow with one rule in "main" and one in
\* "other", assert and match_rules fire the "main" rule only, and a
\* focus("other") and a second match_rules fire the "other" rule.
OnlyFocusedGroupsFire ==
    [][/\ (pc = "pop" /\ activation' # None) =>
              activation'[1].rule.agenda_group \in Range(focus_stack)
       /\ pc # "idle" =>
              \A g \in DOMAIN groups :
                  g \notin Range(focus_stack) =>
                      g \in DOMAIN groups' /\ IsPrefix(groups[g], groups'[g])
       /\ (/\ pc' = "idle" /\ RootRules' = <<MainRule, OtherRule>> /\ Emitted'
           /\ hist' = <<"assert", "match_rules">>) =>
              /\ fired' = <<"main_rule">> /\ last'.val = Some(1)
              /\ groups'["other"] # << >>
       /\ (/\ pc' = "idle" /\ RootRules' = <<MainRule, OtherRule>> /\ Emitted'
           /\ hist' = <<"assert", "match_rules", "focus", "match_rules">>
           /\ focus_stack' = <<"main", "other">>) =>
              fired' = <<"other_rule">> /\ last'.val = Some(1)
      ]_vars

OnlyFocusedGroupsFireWitness ==
    /\ hist = <<"assert", "match_rules", "focus", "match_rules">>
    /\ MatchRulesReturned(1)
    /\ fired = <<"other_rule">>

\* C9: pop() returns an activation of the topmost group of the focus stack
\* when that group is non-empty; empty groups other than "main" on top are
\* removed from the stack and the next group down is tried.  So with R1
\* (its own group, auto_focus, an action that focuses R2's group) and R2
\* matching one fact, one assert and one match_rules fire R1 and then R2.
FocusStackPrecedence ==
    [][/\ pc = "pop" =>
              LET stops == {i \in DOMAIN focus_stack :
                                focus_stack[i] = "main" \/ NonEmptyGroup(focus_stack[i])}
              IN IF stops = {}
                 THEN focus_stack' = << >> /\ activation' = None /\ groups' = groups
                 ELSE LET k == SetMax(stops)
                          g == focus_stack[k]
                      IN /\ focus_stack' = SubSeq(focus_stack, 1, k)
                         /\ IF NonEmptyGroup(g)
                            THEN /\ activation' # None
                                 /\ activation'[1].rule.agenda_group = g
                                 /\ \E i \in DOMAIN groups[g] :
                                       /\ groups[g][i] = activation'[1]
                                       /\ groups' = [groups EXCEPT ![g] = RemoveAt(@, i)]
                            ELSE activation' = None /\ groups' = groups
       /\ (/\ pc' = "idle" /\ RootRules' = <<BToC, BToD>> /\ Emitted'
           /\ hist' = <<"assert", "match_rules">>) =>
              fired' = <<"B to C", "B to D">> /\ last'.val = Some(2)
      ]_vars

FocusStackPrecedenceWitness ==
    /\ hist = <<"assert", "match_rules">>
    /\ MatchRulesReturned(2)
    /\ fired = <<"B to C", "B to D">>
    /\ focus_stack = <<"main", "B to C", "B to D">>

\* C10: after insert of an activation whose rule has auto_focus set,
\* get_focused() is the rule's group G: G is pushed when it was not the top
\* of the focus stack, and the stack is unchanged when it was.
AutoFocusOnInsert ==
    [][(last'.op = "insert" /\ last'.val[1].rule.auto_focus) =>
           LET g == last'.val[1].rule.agenda_group
           IN /\ GetFocused(Ag') = Some(g)
              /\ GetFocused(Ag) = Some(g) => focus_stack' = focus_stack
              /\ GetFocused(Ag) # Some(g) => focus_stack' = Append(focus_stack, g)
      ]_vars

AutoFocusOnInsertWitness ==
    /\ last.op = "insert" /\ last.val[1].rule.auto_focus
    /\ focus_stack = <<"main", "g1">>
    /\ Queued(Ag) = 1

\* the positions of the focus stack that hold "main"
MainEntries(stack) == {i \in DOMAIN stack : stack[i] = "main"}

\* C11: in every state of an agenda, whatever public operations were called
\* on it, the focus stack is non-empty and its bottom element is "main",
\* and a pop from that state removes no "main" entry.
FocusStackBottomIsMain ==
    /\ focus_stack # << >>
    /\ focus_stack[1] = "main"
    /\ \A o \in Pop(Ag) : MainEntries(o.ag.focus_stack) = MainEntries(focus_stack)

\* C12: set_focus of the group on top of the focus stack changes nothing,
\* and the focus stack never holds the same group name in two adjacent
\* positions.
NoAdjacentDuplicateFocus ==
    /\ \A name \in TestGroups :
           GetFocused(Ag) = Some(name) => SetFocus(Ag, name) = [ok |-> TRUE, ag |-> Ag]
    /\ \A i \in 1..(Len(focus_stack) - 1) : focus_stack[i] # focus_stack[i + 1]

\* set_focus has just been called on the group that was on top, with the
\* same group also further down the stack
NoAdjacentDuplicateFocusWitness ==
    /\ last.op = "set_focus" /\ last.ok
    /\ last.val[1].top = Some(last.val[1].name)
    /\ focus_stack = <<"main", "g1", "main">>

\* C13: set_focus of a name that is not in the group map fails
\* (AgendaGroupNotFound) and leaves the focus stack and every group's queue
\* as they were, and so does Session.focus.
FocusUnknownGroupFails ==
    [][(last'.op = "set_focus" /\ ~HasGroup(Ag, last'.val[1].name)) =>
           /\ ~last'.ok
           /\ focus_stack' = focus_stack
           /\ groups' = groups
           /\ SessionFocus(Sess, last'.val[1].name) = [ok |-> FALSE, val |-> None, s |-> Sess]
      ]_vars

FocusUnknownGroupFailsWitness ==
    /\ last.op = "set_focus" /\ ~last.ok
    /\ ~HasGroup(Ag, last.val[1].name)
    /\ Queued(Ag) > 0

\* C14: every agenda group named by a rule of the flow exists in the
\* session's agenda from the creation of the session on, so that
\* Session.focus of a rule's agenda_group never fails.
RuleGroupsExist ==
    \A i \in DOMAIN RootRules :
        /\ HasGroup(Ag, RootRules[i].agenda_group)
        /\ SessionFocus(Sess, RootRules[i].agenda_group).ok

\* C15: a FactId is a key of the primary map iff exactly one handle with
\* that FactId is in the type index, and that handle sits under the type tag
\* of the primary map's entry and is the same handle (same recency).
IndexConsistent ==
    /\ \A fact_id \in DOMAIN facts :
           /\ facts[fact_id].id = fact_id
           /\ Cardinality(TypeIndexEntriesOf(Wm, fact_id)) = 1
           /\ \A e \in TypeIndexEntriesOf(Wm, fact_id) :
                  /\ e[1] = facts[fact_id].type_id
                  /\ facts_by_type[e[1]][e[2]] = facts[fact_id]
    /\ \A h \in TypeIndexHandles(Wm) : h.id \in DOMAIN facts

\* two facts of one type were asserted, the older was modified and the
\* other retracted
IndexConsistentWitness ==
    /\ last.op = "retract" /\ last.ok
    /\ DOMAIN facts = {1}
    /\ facts[1].recency = 2
    /\ last.val[1].type_id = facts[1].type_id

\* the number of asserts among the calls of hist
RECURSIVE Asserts(_)
Asserts(h) ==
    IF h = << >> THEN 0
    ELSE (IF Head(h) = "assert" THEN 1 ELSE 0) + Asserts(Tail(h))

\* C16: fact_count() is 0 on a fresh session and N after N asserts whatever
\* calls other than retract come between them; wherever the session can be
\* called (outside match_rules), every assert adds one to it,
\* every retract of a live id takes one off, and a modify or a failed
\* retract leaves it as it is: after N asserts and K successful retracts it
\* is N - K.
FactCountIsAssertsMinusRetracts ==
    /\ hist = << >> => FactCount(Sess) = 0
    /\ (\A i \in DOMAIN hist : hist[i] \in {"assert", "modify", "focus", "halt", "match_rules"})
           => FactCount(Sess) = Asserts(hist)
    /\ pc = "idle" =>
           /\ \A fact \in FactInputs :
                  FactCount(SessionAssert(Sess, fact).s) = FactCount(Sess) + 1
           /\ \A fact_id \in 1..MaxFacts :
                  LET r == SessionRetract(Sess, fact_id)
                      m == SessionModify(Sess, fact_id)
                  IN /\ r.ok = (fact_id \in DOMAIN facts)
                     /\ FactCount(r.s) = FactCount(Sess) - (IF r.ok THEN 1 ELSE 0)
                     /\ FactCount(m.s) = FactCount(Sess)

\* two asserts, one failed retract and one successful
FactCountIsAssertsMinusRetractsWitness ==
    /\ hist = <<"assert", "retract", "assert", "retract">>
    /\ pc = "idle"
    /\ DOMAIN facts = {1}
    /\ FactCount(Sess) = 1

\* no lookup on the FactId returns a handle
Unreachable(wm, fact_id) ==
    /\ WmGet(wm, fact_id) = None
    /\ \A ty \in DOMAIN wm.facts_by_type :
           \A i \in DOMAIN WmGetByType(wm, ty) : WmGetByType(wm, ty)[i].id # fact_id

\* C17: a successful retract(id) returns the handle that was stored under
\* id, and afterwards get(id) is none and get_by_type returns no handle with
\* that id; a FactId that was given out and is not live is never live again,
\* whatever is called later.
RetractedStaysGone ==
    [][/\ (last'.op = "retract" /\ last'.id \in DOMAIN facts) =>
              /\ last'.ok
              /\ last'.val = Some(facts[last'.id])
              /\ Unreachable(Wm', last'.id)
       /\ \A fact_id \in 1..(fact_counter - 1) :
              Unreachable(Wm, fact_id) => Unreachable(Wm', fact_id)
      ]_vars

\* fact 1 has just been retracted while fact 2, of the same type, is live
RetractedStaysGoneWitness ==
    /\ last.op = "retract" /\ last.ok /\ last.id = 1
    /\ DOMAIN facts = {2}
    /\ last.val[1].type_id = facts[2].type_id
    /\ Unreachable(Wm, 1)

\* C18: modify(id) on a live fact succeeds and returns a handle with the
\* same FactId, type tag and value and a strictly greater recency, which
\* replaces the old handle in the primary map and in the type index; the
\* old handle is in neither afterwards and the number of facts is unchanged.
ModifyReplacesHandle ==
    [][(last'.op = "modify" /\ last'.id \in DOMAIN facts) =>
           /\ last'.ok
           /\ LET old == facts[last'.id]
                  new == last'.val[1]
              IN /\ new.id = old.id
                 /\ new.type_id = old.type_id
                 /\ new.fact = old.fact
                 /\ new.recency > old.recency
                 /\ WmGet(Wm', old.id) = Some(new)
                 /\ new \in TypeIndexHandles(Wm')
                 /\ old \notin Range(facts')
                 /\ old \notin TypeIndexHandles(Wm')
                 /\ WmLen(Wm') = WmLen(Wm)
      ]_vars

\* the older of two live facts of one type has been modified
ModifyReplacesHandleWitness ==
    /\ last.op = "modify" /\ last.ok /\ last.id = 1
    /\ DOMAIN facts = {1, 2}
    /\ facts[1].type_id = facts[2].type_id
    /\ facts[1].recency = 2

\* C19: retract(id) and modify(id) on an id that is not live, never
\* asserted or already retracted, fail (FactNotFound) and change nothing:
\* working memory, the recency counter, the node memories of the network
\* and the agenda are as before the call.
NotLiveFails ==
    \A fact_id \in 1..(MaxFacts + 1) :
        fact_id \notin DOMAIN facts =>
            /\ WmRetract(Wm, fact_id) = [ok |-> FALSE, handle |-> None, wm |-> Wm]
            /\ WmModify(Wm, fact_id) = [ok |-> FALSE, handle |-> None, wm |-> Wm]
            /\ SessionRetract(Sess, fact_id) = [ok |-> FALSE, val |-> None, s |-> Sess]
            /\ SessionModify(Sess, fact_id) = [ok |-> FALSE, val |-> None, s |-> Sess]

\* the one fact was retracted and retract was called once more, while the
\* fact's activation is still queued
NotLiveFailsWitness ==
    /\ hist = <<"assert", "retract", "retract">>
    /\ pc = "idle"
    /\ fact_counter = 2
    /\ DOMAIN facts = {}
    /\ wm_recency = 1
    /\ Queued(Ag) > 0

\* the handles of the primary map
StoredHandles(wm) == {wm.facts[fact_id] : fact_id \in DOMAIN wm.facts}

\* C20: the handle a successful assert or modify returns has a recency
\* that is at least the counter before the call, below the counter after it
\* and above that of every handle stored before; every handle produced so
\* far is below the counter, the counter never goes down, and retract
\* leaves it as it is.
RecencyMonotonic ==
    [][/\ \A h \in StoredHandles(Wm) : h.recency < wm_recency
       /\ wm_recency' >= wm_recency
       /\ (last'.op \in {"assert", "modify"} /\ last'.ok) =>
              /\ last'.val[1].recency >= wm_recency
              /\ last'.val[1].recency < wm_recency'
              /\ \A h \in StoredHandles(Wm) : last'.val[1].recency > h.recency
       /\ last'.op = "retract" => wm_recency' = wm_recency
      ]_vars

\* a fact asserted after another has been modified after a retract
RecencyMonotonicWitness ==
    /\ last.op = "modify" /\ last.ok /\ last.id = 2
    /\ DOMAIN facts = {2}
    /\ facts[2].recency = 2
    /\ wm_recency = 3

\* the type tags of the facts of the model
FactTypes == {f.type : f \in FactInputs}

\* C21: get_by_type<T>() returns exactly the live handles whose type tag is
\* T, each once, in the order in which the current handles were put into
\* the type index: assert order, a modified fact moving to the end.
GetByTypeExact ==
    \A ty \in FactTypes :
        LET r == WmGetByType(Wm, ty)
        IN /\ Range(r) = {h \in StoredHandles(Wm) : h.type_id = ty}
           /\ \A i, j \in DOMAIN r : i < j => r[i].id # r[j].id
           /\ \A i, j \in DOMAIN r : i < j => r[i].recency < r[j].recency

\* the older of two live facts of one type was modified and is now last
GetByTypeExactWitness ==
    /\ last.op = "modify" /\ last.ok /\ last.id = 1
    /\ DOMAIN facts = {1, 2}
    /\ facts[1].type_id = facts[2].type_id
    /\ WmGetByType(Wm, facts[1].type_id) = <<facts[2], facts[1]>>

\* the alpha chains whose pattern the handle matches
MatchingChains(handle) == {i \in DOMAIN root : Matches(root[i].pattern, handle)}

\* C22: Session.modify(id) on a live fact succeeds, leaves the new handle
\* (and not the old one) in the memory of every alpha node it matches, and
\* adds to the agenda one activation, bound to the new handle, for every
\* alpha chain whose pattern the fact matches; so after assert and
\* match_rules have fired the one matching rule, modify and match_rules fire
\* it again and return 1.
ModifyReactivates ==
    /\ pc = "idle" =>
           \A fact_id \in DOMAIN facts :
               LET m == SessionModify(Sess, fact_id)
                   new == m.s.working_memory.facts[fact_id]
                   chains == MatchingChains(facts[fact_id])
               IN /\ m.ok
                  /\ Queued(m.s.agenda) = Queued(Ag) + Cardinality(chains)
                  /\ \A i \in chains :
                         /\ new \in Range(m.s.root[i].memory)
                         /\ facts[fact_id] \notin Range(m.s.root[i].memory)
                         /\ LET g == root[i].children[1].rule.agenda_group
                            IN \E k \in DOMAIN m.s.agenda.groups[g] :
                                   LET a == m.s.agenda.groups[g][k]
                                   IN /\ a.rule = root[i].children[1].rule
                                      /\ \E b \in a.match_data.facts : b.fact = new
                                      /\ a.recency = root[i].children[1].recency
    /\ (/\ hist = <<"assert", "match_rules", "modify", "match_rules">>
        /\ pc = "idle"
        /\ RootRules = <<IncrementRule>>
        /\ root[1].children[1].recency = 2) =>
           MatchRulesReturned(1) /\ fired = <<"increment">>

ModifyReactivatesWitness ==
    /\ hist = <<"assert", "match_rules", "modify", "match_rules">>
    /\ RootRules = <<IncrementRule>>
    /\ root[1].children[1].recency = 2
    /\ MatchRulesReturned(1)
    /\ facts[1].recency = 1

\* the handle has the object pattern's type and satisfies all its constraints
ObjectMatch(p, handle) ==
    /\ p.kind = "object"
    /\ handle.type_id = p.type
    /\ \A i \in DOMAIN p.constraints : Evaluate(p.constraints[i], handle)

\* the (fact, rule) pairs of live facts and alpha chains that match
MatchingPairs ==
    {pr \in (DOMAIN facts) \X (DOMAIN root) : ObjectMatch(root[pr[2]].pattern, facts[pr[1]])}

\* every rule of the flow has an action that does nothing
AllNoop == \A i \in DOMAIN root : root[i].children[1].rule.action.kind = "noop"

\* the calls so far: some asserts, then one match_rules, which has returned
AssertsThenMatch ==
    /\ pc = "idle"
    /\ hist # << >>
    /\ hist[Len(hist)] = "match_rules"
    /\ \A i \in 1..(Len(hist) - 1) : hist[i] = "assert"

\* assert(fact) queues an activation of the rule of chain i, bound to the
\* new handle, iff the handle has the pattern's type and meets its constraints
AssertActivatesIffMatch ==
    pc = "idle" =>
        \A fact \in FactInputs :
            LET r == SessionAssert(Sess, fact)
                handle == r.s.working_memory.facts[fact_counter]
            IN \A i \in DOMAIN root :
                   LET rule == root[i].children[1].rule
                       queue == r.s.agenda.groups[rule.agenda_group]
                   IN ObjectMatch(root[i].pattern, handle) <=>
                          /\ HasGroup(r.s.agenda, rule.agenda_group)
                          /\ \E k \in DOMAIN queue :
                                 /\ queue[k].rule = rule
                                 /\ \E b \in queue[k].match_data.facts : b.fact = handle

ActionErrs ==
    LET action == activation[1].rule.action
    IN \/ action.kind = "assert_err"
       \/ action.kind = "focus" /\ ~HasGroup(Ag, action.arg)

\* C24: when a rule action returns an error, match_rules returns the error
\* at once: nothing more is fired or counted, the failed activation is no
\* longer in the agenda, every other pending activation stays queued, and
\* what the action did to working memory and the agenda before it failed
\* stays (the fact it asserted is live, its activations are queued).  With
\* a failing rule of salience 10 and a rule of salience 1 on one fact,
\* match_rules fails after the first, and the second stays queued.
ActionErrorStopsMatch ==
    [][/\ (pc = "fire" /\ ActionErrs) =>
              /\ pc' = "idle"
              /\ last' = [op |-> "match_rules", ok |-> FALSE, val |-> None]
              /\ fired_count' = fired_count
              /\ \A g \in DOMAIN groups :
                     g \in DOMAIN groups' /\ IsPrefix(groups[g], groups'[g])
              /\ \A g \in DOMAIN groups' : activation[1] \notin Range(groups'[g])
              /\ activation[1].rule.action.kind = "assert_err" =>
                     LET r == SessionAssert(Sess, ActionFact(activation[1].rule.action.arg))
                     IN /\ Wm' = r.s.working_memory
                        /\ Ag' = r.s.agenda
                        /\ root' = r.s.root
                        /\ FactCount(Sess') = FactCount(Sess) + 1
       /\ (/\ pc' = "idle" /\ RootRules' = <<FailingRule, LowRule>> /\ Emitted'
           /\ hist' = <<"assert", "match_rules">>) =>
              /\ last' = [op |-> "match_rules", ok |-> FALSE, val |-> None]
              /\ fired' = <<"failing">>
              /\ Queued(Ag') = 1 /\ groups'["main"][1].rule = LowRule
              /\ FactCount(Sess') = 2
      ]_vars

ActionErrorStopsMatchWitness ==
    /\ hist = <<"assert", "match_rules">>
    /\ RootRules = <<FailingRule, LowRule>>
    /\ pc = "idle"
    /\ last = [op |-> "match_rules", ok |-> FALSE, val |-> None]
    /\ fired = <<"failing">>
    /\ Queued(Ag) = 1
    /\ FactCount(Sess) = 2

\* C25: halt() takes effect at the next pop boundary: the action that calls
\* session.halt() during match_rules runs to its end and is counted, and
\* once halted is set match_rules pops and fires nothing more and returns
\* its count, leaving the queued activations in the agenda.  With a halting
\* rule of salience 10 and a rule of salience 1 on one fact, match_rules
\* returns 1 and the second rule's activation stays queued.
HaltStopsAtNextPop ==
    [][/\ (pc = "fire" /\ ~halted /\ halted') =>
              /\ fired_count' = fired_count + 1
              /\ fired' = Append(fired, activation[1].rule.name)
              /\ pc' = "test"
              /\ Ag' = Ag
       /\ (pc = "test" /\ halted) =>
              /\ pc' = "idle"
              /\ last' = [op |-> "match_rules", ok |-> TRUE, val |-> Some(fired_count)]
              /\ Ag' = Ag
              /\ fired' = fired
       /\ pc \in {"pop", "fire"} => ~halted
       /\ (/\ pc' = "idle" /\ RootRules' = <<StopperRule, LowRule>> /\ Emitted'
           /\ hist' = <<"assert", "match_rules">>) =>
              /\ last' = [op |-> "match_rules", ok |-> TRUE, val |-> Some(1)]
              /\ fired' = <<"stopper">>
              /\ halted'
              /\ groups'["main"] # << >> /\ groups'["main"][1].rule = LowRule
      ]_vars

HaltStopsAtNextPopWitness ==
    /\ hist = <<"assert", "match_rules">>
    /\ RootRules = <<StopperRule, LowRule>>
    /\ MatchRulesReturned(1)
    /\ fired = <<"stopper">>
    /\ halted
    /\ Queued(Ag) = 1

\* the activations the step has added to the queue of group g
NewIn(g) ==
    IF g \in DOMAIN groups
    THEN {groups'[g][k] : k \in (Len(groups[g]) + 1)..Len(groups'[g])}
    ELSE Range(groups'[g])

\* C26: activations inserted by an action during match_rules take part in
\* the same drain: when the action has queued, in the focused group, an
\* activation whose salience exceeds that of every activation pending
\* there, the loop goes on and its next pop takes one of the activations
\* the action has queued.  With a rule of salience 5 whose action asserts
\* a fact that a rule of salience 10 matches, and a rule of salience 1, one
\* assert and one match_rules fire them in the order 5, 10, 1.
ActionInsertsJoinDrain ==
    [][/\ (/\ pc = "fire"
           /\ strategies = DefaultStrategies
           /\ GetFocused(Ag') # None
           /\ LET g == GetFocused(Ag')[1]
              IN \E a \in NewIn(g) :
                     \A b \in Range(groups[g]) : Salience(a) > Salience(b)) =>
              /\ pc' = "test" /\ ~halted' /\ ~IsEmpty(Ag')
              /\ \A o \in Pop(Ag') :
                     o.val # None /\ o.val[1] \in NewIn(GetFocused(Ag')[1])
       /\ (/\ pc' = "idle" /\ RootRules' = <<SpawnRule, UrgentRule, LowRule>>
           /\ hist' = <<"assert", "match_rules">>
           /\ root'[1].children[1].recency = 1) =>
              /\ last' = [op |-> "match_rules", ok |-> TRUE, val |-> Some(3)]
              /\ fired' = <<"spawn", "urgent", "low">>
      ]_vars

ActionInsertsJoinDrainWitness ==
    /\ hist = <<"assert", "match_rules">>
    /\ RootRules = <<SpawnRule, UrgentRule, LowRule>>
    /\ MatchRulesReturned(3)
    /\ fired = <<"spawn", "urgent", "low">>
    /\ FactCount(Sess) = 2

----------------------------------------------------------------------------
\* FlowSpec: a flow and two sessions created from it by Flow::session.  Both
\* sessions hold an Arc to the flow's one RootNode, so `root` is what each of
\* them, and Flow::add_rule, reads and writes.

\* a call made on the second session
PeerCall(r) ==
    /\ pc = "idle"
    /\ Len(r.s.agenda.focus_stack) <= MaxStack
    /\ peer' = Private(r.s)
    /\ root' = r.s.root
    /\ fact_counter' = r.s.counter
    /\ UNCHANGED <<agenda_vars, facts, facts_by_type, wm_recency, halted, pc,
                   activation, fired_count, fired, last, hist, flow_rules,
                   root_lock>>

PeerAssert(fact) ==
    /\ fact_counter <= MaxFacts
    /\ peer.working_memory.recency <= MaxFacts
    /\ PeerCall(SessionAssert(PeerSess, fact))

PeerRetract(fact_id) == PeerCall(SessionRetract(PeerSess, fact_id))

PeerModify(fact_id) ==
    /\ peer.working_memory.recency <= MaxFacts
    /\ PeerCall(SessionModify(PeerSess, fact_id))

\* flow.add_rule(rule) after the sessions were created
LateRules == {LowRule}
FlowAddRule(rule) ==
    /\ pc = "idle"
    /\ LET r == AddRule(TheFlow, rule)
       IN /\ flow_rules' = r.flow.rules
          /\ root' = r.flow.root
    /\ UNCHANGED <<agenda_vars, facts, facts_by_type, wm_recency, fact_counter,
                   halted, pc, activation, fired_count, fired, last, hist, peer,
                   root_lock>>

OwnerStep ==
    \/ \E fact \in FactInputs : CallAssert(fact)
    \/ \E fact_id \in 1..MaxFacts : CallRetract(fact_id)
    \/ \E fact_id \in 1..MaxFacts : CallModify(fact_id)

PeerStep ==
    \/ \E fact \in FactInputs : PeerAssert(fact)
    \/ \E fact_id \in 1..MaxFacts : PeerRetract(fact_id)
    \/ \E fact_id \in 1..MaxFacts : PeerModify(fact_id)

FlowStep == \E rule \in LateRules : FlowAddRule(rule)

FlowNext ==
    \/ \E fact \in FactInputs : CallAssert(fact)
    \/ \E fact_id \in 1..MaxFacts : CallRetract(fact_id)
    \/ \E fact_id \in 1..MaxFacts : CallModify(fact_id)
    \/ \E fact \in FactInputs : PeerAssert(fact)
    \/ \E fact_id \in 1..MaxFacts : PeerRetract(fact_id)
    \/ \E fact_id \in 1..MaxFacts : PeerModify(fact_id)
    \/ \E rule \in LateRules : FlowAddRule(rule)

\* flow.add_rule(..)? for the rules of one flow, then flow.session() twice
SharedFlows == {<<IncrementRule>>, <<HighRule>>}
FlowInit == InitWith(SharedFlows)

FlowSpec == FlowInit /\ [][FlowNext]_vars

\* the node memories and the terminal recency counters a session sees
MemoriesAndCounters(s) ==
    [i \in DOMAIN s.root |->
        [memory |-> s.root[i].memory,
         recency |-> [j \in DOMAIN s.root[i].children |->
                         s.root[i].children[j].recency]]]

----------------------------------------------------------------------------
\* NegationSpec: one session of a flow whose rules have NOT and EXISTS patterns

SmallCount(alias) == ObjectPattern(alias, "Message", <<FunctionConstraint("count < 5")>>)
AbsentRule == Rule("absent", <<NotPattern(SmallCount("m"))>>, NoAction, 0, "main", FALSE)
PresentRule == Rule("present", <<ExistsPattern(SmallCount("m"))>>, NoAction, 0, "main", FALSE)
NegationFlows == {<<AbsentRule>>, <<PresentRule>>, <<AbsentRule, IncrementRule>>}

NegationInit == InitWith(NegationFlows)
NegationSpec == NegationInit /\ [][Next]_vars

\* the handle session.assert(fact) would create now, and the activations
\* root.assert_fact returns for it
NextHandle(fact) == WmAssert(Sess.working_memory, Sess.counter, fact).handle
AssertActivations(fact) == RootAssertFact(root, NextHandle(fact)).acts
Activates(fact, rule) ==
    \E k \in DOMAIN AssertActivations(fact) : AssertActivations(fact)[k].rule.name = rule.name

\* the live facts that satisfy pattern p, in working memory wm
Satisfying(wm, p) == {id \in DOMAIN wm.facts : Matches(p, wm.facts[id])}

\* C27: match_until_halt is semantically identical to match_rules: called
\* on the same session state, both return or neither does, and they fire
\* the same activations in the same order, return the same count and leave
\* the same session state (working memory, group queues, focus stack,
\* halted flag).
MatchUntilHaltSameAsMatchRules ==
    pc = "idle" => MatchUntilHaltRun(Sess, << >>, 0) = MatchRulesRun(Sess, << >>, 0)

\* C28: each session created by Flow::session owns its own compiled network:
\* assert, retract and modify in one session leave the node memories and
\* terminal recency counters seen by the other session of the same flow
\* unchanged, and a rule added to the flow after the sessions were created
\* changes neither session's network.
SessionsOwnTheirNetworks ==
    [][/\ OwnerStep => MemoriesAndCounters(PeerSess)' = MemoriesAndCounters(PeerSess)
       /\ PeerStep => MemoriesAndCounters(Sess)' = MemoriesAndCounters(Sess)
       /\ FlowStep => (Sess.root' = Sess.root /\ PeerSess.root' = PeerSess.root)]_vars

\* C29: for every pattern variant (object, negated, existential), matches
\* returns false whenever the handle's type tag differs from the pattern's
\* type tag; so asserting a fact of type U never produces an activation
\* for a rule whose only pattern has type T # U.
TypeMismatchNeverMatches ==
    pc = "idle" =>
        \A fact \in FactInputs : \A i \in DOMAIN root :
            LET rule == root[i].children[1].rule
            IN PatternTypeId(root[i].pattern) # NextHandle(fact).type_id =>
                  /\ ~Matches(root[i].pattern, NextHandle(fact))
                  /\ Len(rule.patterns) = 1 => ~Activates(fact, rule)

\* C30: negation is an aggregate counting gate: for a rule whose pattern is
\* NOT(P), an assert produces an activation only if no live fact then
\* satisfies P; asserting a fact that does not satisfy P while another live
\* fact satisfies P produces no activation.
NegationIsCountingGate ==
    pc = "idle" =>
        \A fact \in FactInputs : \A i \in DOMAIN root :
            root[i].pattern.kind = "not" =>
                LET rule == root[i].children[1].rule
                    P == root[i].pattern.pattern
                    after == WmAssert(Sess.working_memory, Sess.counter, fact).wm
                IN /\ Activates(fact, rule) => Satisfying(after, P) = {}
                   /\ (~Matches(P, NextHandle(fact))
                         /\ Satisfying(Sess.working_memory, P) # {})
                      => ~Activates(fact, rule)

----------------------------------------------------------------------------
\* BuildSpec: a flow that is still being built, and one session of it. The
\* session is created first, so every add_rule is seen by later asserts.

\* a rule with two patterns; a Message with a small count matches both
PairRule == Rule("pair", <<SmallCount("a"), AnyMessage("b")>>, NoAction, 0, "main", FALSE)

\* a rule without patterns: build_network_for_rule adds no node for it
BareRule == Rule("bare", << >>, NoAction, 0, "main", FALSE)

\* rules offered to add_rule: two names, each with two different bodies, the
\* rule with two patterns and the rule with none
BuildRules ==
    {IncrementRule, LowRule, PairRule, BareRule,
     Rule("increment", <<AnyOther("o")>>, NoAction, 0, "main", FALSE),
     Rule("low", <<AnyOther("o")>>, NoAction, 1, "main", FALSE)}

BuildInit == InitWith({<< >>})

\* flow.add_rule(rule); `last` keeps the rule and whether it was accepted
CallAddRule(rule) ==
    /\ pc = "idle"
    /\ LET r == AddRule(TheFlow, rule)
       IN /\ flow_rules' = r.flow.rules
          /\ root' = r.flow.root
          /\ last' = [op |-> "add_rule", ok |-> r.ok, val |-> Some(rule)]
    /\ UNCHANGED <<agenda_vars, facts, facts_by_type, wm_recency, fact_counter,
                   halted, pc, activation, fired_count, fired, hist, peer,
                   root_lock>>

BuildNext ==
    \/ \E rule \in BuildRules : CallAddRule(rule)
    \/ \E fact \in FactInputs : CallAssert(fact)

BuildSpec == BuildInit /\ [][BuildNext]_vars

\* C31: Flow.add_rule with a name already present in the flow fails with
\* Compilation and leaves the flow unchanged: the rule map is as before and
\* no alpha or terminal node is added to the root, so no later assert
\* produces an activation for the rejected rule.
DuplicateRuleRejected ==
    /\ \A rule \in BuildRules :
          rule.name \in DOMAIN flow_rules =>
              AddRule(TheFlow, rule) = [ok |-> FALSE, flow |-> TheFlow]
    /\ (last.op = "add_rule" /\ ~last.ok) => last.val[1].name \in DOMAIN flow_rules
    /\ \A i \in DOMAIN root : \A j \in DOMAIN root[i].children :
          LET rule == root[i].children[j].rule
          IN rule.name \in DOMAIN flow_rules /\ flow_rules[rule.name] = rule
    /\ \A g \in DOMAIN groups : \A k \in DOMAIN groups[g] :
          LET rule == groups[g][k].rule
          IN rule.name \in DOMAIN flow_rules /\ flow_rules[rule.name] = rule

\* a rule was rejected whose body differs from the accepted rule of that
\* name, and a fact the rejected rule matches has been asserted since the
\* accepted rule was added
DuplicateRuleRejectedWitness ==
    /\ last.op = "add_rule" /\ ~last.ok
    /\ flow_rules[last.val[1].name] # last.val[1]
    /\ \E id \in DOMAIN facts : Matches(last.val[1].patterns[1], facts[id])

----------------------------------------------------------------------------
\* NodeSpec: one alpha node with its terminal (root[1]), driven through the
\* Node trait: assert_fact, retract_fact and modify_fact with any handle

\* Node::modify_fact (the default, which AlphaNode keeps): retract, then assert
AlphaModifyFact(node, fact) ==
    LET r == AlphaRetractFact(node, fact)
        a == AlphaAssertFact(r.node, fact)
    IN [node |-> a.node, acts |-> r.acts \o a.acts]

\* FactHandle::new(fact, recency), with the FactId drawn from a small set
NodeRecencies == 0..1
NodeHandles ==
    {FactHandle(id, fact, recency) :
        id \in 1..MaxFacts, fact \in FactInputs, recency \in NodeRecencies}

NodeInit == InitWith({<<IncrementRule>>, <<MainRule>>})

\* `last` keeps the event and the activations it returned
NodeEvent(op, r) ==
    /\ Len(r.node.memory) <= MaxQueue
    /\ r.node.children[1].recency <= MaxQueue
    /\ root' = <<r.node>>
    /\ last' = [op |-> op, ok |-> TRUE, val |-> r.acts]
    /\ UNCHANGED <<agenda_vars, facts, facts_by_type, wm_recency, fact_counter,
                   halted, pc, activation, fired_count, fired, hist, flow_vars>>

NodeAssertFact(handle) == NodeEvent("assert_fact", AlphaAssertFact(root[1], handle))
NodeRetractFact(handle) == NodeEvent("retract_fact", AlphaRetractFact(root[1], handle))
NodeModifyFact(handle) == NodeEvent("modify_fact", AlphaModifyFact(root[1], handle))

NodeNext ==
    \/ \E handle \in NodeHandles : NodeAssertFact(handle)
    \/ \E handle \in NodeHandles : NodeRetractFact(handle)
    \/ \E handle \in NodeHandles : NodeModifyFact(handle)

NodeSpec == NodeInit /\ [][NodeNext]_vars

\* C32: alpha memory is deduplicated by FactId: after any sequence of
\* assert_fact, retract_fact and modify_fact events delivered to an alpha
\* node (the same handle asserted twice included), its memory holds at most
\* one handle per FactId.
AlphaMemoryDeduplicated ==
    \A i \in DOMAIN root : \A a, b \in DOMAIN root[i].memory :
        a # b => root[i].memory[a].id # root[i].memory[b].id

\* the activations of `rule` among acts, as positions
ActivationsOf(acts, rule) == {k \in DOMAIN acts : acts[k].rule = rule}

\* C33: every activation emitted by a terminal has exactly one binding,
\* keyed by the alias of the rule's first pattern and bound to the asserted
\* handle; for a rule with k patterns a fact that matches j of them yields j
\* activations of that rule, each with that single binding.
TerminalBindsFirstAlias ==
    pc = "idle" =>
        \A fact \in FactInputs :
            LET acts == AssertActivations(fact)
                handle == NextHandle(fact)
            IN /\ \A k \in DOMAIN acts :
                     acts[k].match_data.facts =
                         {[alias |-> Alias(acts[k].rule.patterns[1]), fact |-> handle]}
               /\ \A name \in DOMAIN flow_rules :
                     Cardinality(ActivationsOf(acts, flow_rules[name])) =
                         Cardinality({i \in DOMAIN flow_rules[name].patterns :
                                         Matches(flow_rules[name].patterns[i], handle)})

\* an assert has produced two activations of the two-pattern rule for one
\* fact, both bound under the first pattern's alias
TerminalBindsFirstAliasWitness ==
    \E a, b \in DOMAIN groups["main"] :
        /\ a # b
        /\ groups["main"][a].rule = PairRule
        /\ groups["main"][b].rule = PairRule
        /\ groups["main"][a].match_data = groups["main"][b].match_data
        /\ \E m \in groups["main"][a].match_data.facts : m.alias = "a"

\* C34: activation recency within a terminal is strictly monotonic: the
\* activations a terminal emits carry strictly increasing recency values in
\* emission order (each one at least the counter before its event and below
\* the counter after it, and the counter never goes back), and a terminal
\* retract emits nothing and does not advance the counter.
TerminalRecencyMonotonic ==
    [][/\ root'[1].children[1].recency >= root[1].children[1].recency
       /\ \A k \in DOMAIN last'.val :
             /\ last'.val[k].recency >= root[1].children[1].recency
             /\ last'.val[k].recency < root'[1].children[1].recency
       /\ Len(last'.val) <= 1
       /\ last'.op = "retract_fact" =>
             /\ last'.val = << >>
             /\ root'[1].children[1].recency = root[1].children[1].recency]_vars

\* the terminal has emitted its third activation, with retract events (of
\* retract_fact or modify_fact) delivered in between
TerminalRecencyMonotonicWitness ==
    /\ last.op = "assert_fact"
    /\ last.val # << >>
    /\ last.val[1].recency = 2
    /\ Len(root[1].memory) = 1

----------------------------------------------------------------------------
\* TieSpec: one session of a flow with two rules of equal salience in "main"

TieFlows == {<<MainRule, IncrementRule>>}
TieInit == InitWith(TieFlows)
TieSpec == TieInit /\ [][Next]_vars

\* the positions of queue the popped activation may have been taken from
PoppedFrom(queue, rest, popped) ==
    {k \in DOMAIN queue : queue[k] = popped /\ rest = RemoveAt(queue, k)}

\* C35: activation-recency ordering is LIFO: among activations of equal
\* salience queued in the same group under the default strategies, the one
\* inserted into the agenda later is popped first, also when the two
\* activations belong to different rules.
PopIsLifoAcrossRules ==
    [][(pc = "pop" /\ pc' = "fire" /\ strategies = DefaultStrategies) =>
          LET popped == activation'[1]
              g == popped.rule.agenda_group
          IN \E k \in PoppedFrom(groups[g], groups'[g], popped) :
                \A j \in DOMAIN groups[g] :
                    j > k => Salience(groups[g][j]) # Salience(popped)]_vars

\* the live working-memory handles that match pattern p
LiveMatches(p) == {facts[id] : id \in {id \in DOMAIN facts : Matches(p, facts[id])}}

\* C36: in a single session that is never disposed, after any sequence of
\* assert, retract and modify, each alpha node's memory is exactly the set
\* of live working-memory handles (same FactId and same recency) that match
\* the node's pattern, each held once.
AlphaMemoryIsLiveMatches ==
    \A i \in DOMAIN root :
        /\ Range(root[i].memory) = LiveMatches(root[i].pattern)
        /\ Len(root[i].memory) = Cardinality(LiveMatches(root[i].pattern))

\* two facts were asserted, one was retracted and the other modified: the
\* memory holds the one live handle, with the recency modify gave it
AlphaMemoryIsLiveMatchesWitness ==
    /\ fact_counter = 3
    /\ Cardinality(DOMAIN facts) = 1
    /\ \E i \in DOMAIN root :
          /\ Len(root[i].memory) = 1
          /\ root[i].memory[1].recency = 2

\* what a match call returns when it fires nothing and changes nothing
ReturnsZero(s) ==
    {[done |-> TRUE, ok |-> TRUE, val |-> Some(0), fired |-> << >>, s |-> s]}

\* C37: the halted flag is sticky: once halt() has been called on a
\* session, is_halted() stays true after every later operation, and every
\* later match_rules or match_until_halt fires no activation and returns 0.
HaltedIsSticky ==
    /\ [][/\ halted => halted'
          /\ (pc = "idle" /\ pc' = "test") => (fired_count' = 0 /\ fired' = << >>)
          /\ (pc = "test" /\ halted) =>
                /\ pc' = "idle"
                /\ last' = [op |-> "match_rules", ok |-> TRUE, val |-> Some(fired_count)]
                /\ fired' = fired
                /\ UNCHANGED <<agenda_vars, root, facts, facts_by_type>>]_vars
    /\ [](halted /\ pc = "idle" =>
             /\ MatchRulesRun(Sess, << >>, 0) = ReturnsZero(Sess)
             /\ MatchUntilHaltRun(Sess, << >>, 0) = ReturnsZero(Sess))

\* a match_rules called on a halted session with activations queued on the
\* focused group has returned 0
HaltedIsStickyWitness ==
    /\ halted
    /\ last = [op |-> "match_rules", ok |-> TRUE, val |-> Some(0)]
    /\ fired = << >>
    /\ ~IsEmpty(Ag)

\* C38: activations are conserved: every activation returned by Agenda.pop
\* was queued (inserted earlier) and leaves its queue with that pop, so it
\* is popped at most once; no other call of a session that is not cleared
\* or disposed takes an activation off a queue, insertions only append; and
\* the count returned by a successful match_rules equals the number of
\* activations popped, and of actions run, during that call.
ActivationsConserved ==
    [][/\ DOMAIN groups \subseteq DOMAIN groups'
       /\ IF pc = "pop"
          THEN IF activation' = None
               THEN groups' = groups /\ fired' = fired
               ELSE LET popped == activation'[1]
                        g == popped.rule.agenda_group
                    IN /\ g \in DOMAIN groups
                       /\ PoppedFrom(groups[g], groups'[g], popped) # {}
                       /\ \A h \in DOMAIN groups \ {g} : groups'[h] = groups[h]
                       /\ pc' = "fire" /\ fired' = fired
          ELSE \A g \in DOMAIN groups : IsPrefix(groups[g], groups'[g])
       /\ pc = "fire" =>
             (activation' = None /\ fired' = Append(fired, activation[1].rule.name))
       /\ (pc # "idle" /\ pc' = "idle" /\ last'.ok) => last'.val = Some(Len(fired'))]_vars

\* a match_rules call has popped and fired three activations, one of them
\* inserted by an action during the call, and returned 3
ActivationsConservedWitness ==
    /\ MatchRulesReturned(3)
    /\ fired = <<"spawn", "urgent", "low">>
    /\ Queued(Ag) = 0

----------------------------------------------------------------------------
\* LockSpec: the session of ActionSpec, with the root's RwLock. A session
\* call made by an action takes root.write() and holds the guard until it
\* returns; match_rules itself takes no lock.

\* the action kinds that call session.assert
RootActions == {"assert", "assert_err"}

\* an action that makes no session call on the root
FireWithoutRoot ==
    /\ pc = "fire"
    /\ activation[1].rule.action.kind \notin RootActions
    /\ MatchFire

\* the action's session.assert reaches self.root.write(): it blocks while the
\* lock is held
FireRootWrite ==
    /\ pc = "fire"
    /\ activation[1].rule.action.kind \in RootActions
    /\ ~root_lock
    /\ root_lock' = TRUE
    /\ pc' = "locked"
    /\ UNCHANGED <<agenda_vars, root, facts, facts_by_type, wm_recency, fact_counter,
                   halted, activation, fired_count, fired, last, hist, flow_rules,
                   peer>>

\* A mutant of FireRootReturn: the guard is not dropped when session.assert
\* returns.
FireRootReturnKeepingLock ==
    /\ pc = "locked"
    /\ LET a == activation[1]
           r == Fire(a.rule, Sess, a.match_data)
       IN /\ SetSession(r.s)
          /\ fired' = Append(fired, a.rule.name)
          /\ activation' = None
          /\ IF r.ok
             THEN /\ fired_count' = fired_count + 1
                  /\ pc' = "test"
                  /\ last' = last
             ELSE /\ fired_count' = fired_count
                  /\ pc' = "idle"
                  /\ last' = [op |-> "match_rules", ok |-> FALSE, val |-> None]
    /\ UNCHANGED <<hist, flow_vars>>

\* root.assert_fact, the agenda inserts and the return of session.assert,
\* which drops the guard; then the action returns to match_rules
FireRootReturn ==
    /\ pc = "locked"
    /\ LET a == activation[1]
           r == Fire(a.rule, Sess, a.match_data)
       IN /\ SetSession(r.s)
          /\ fired' = Append(fired, a.rule.name)
          /\ activation' = None
          /\ IF r.ok
             THEN /\ fired_count' = fired_count + 1
                  /\ pc' = "test"
                  /\ last' = last
             ELSE /\ fired_count' = fired_count
                  /\ pc' = "idle"
                  /\ last' = [op |-> "match_rules", ok |-> FALSE, val |-> None]
    /\ root_lock' = FALSE
    /\ UNCHANGED <<hist, flow_rules, peer>>

LockNext ==
    \/ \E fact \in FactInputs : CallAssert(fact)
    \/ \E fact_id \in 1..MaxFacts : CallRetract(fact_id)
    \/ \E fact_id \in 1..MaxFacts : CallModify(fact_id)
    \/ \E group \in FocusNames : CallFocus(group)
    \/ CallHalt
    \/ CallMatchRules
    \/ MatchTest
    \/ MatchPop
    \/ FireWithoutRoot
    \/ FireRootWrite
    \/ FireRootReturn

LockSpec == ActionInit /\ [][LockNext]_vars

\* C39: the root lock is never held while a rule action runs: match_rules
\* holds no lock when it tests, pops or fires, so an action that calls
\* session.assert finds the write lock free, holds it only inside that call
\* and has released it when it returns; the loop cannot block on its own
\* session's lock.
RootLockFreeWhileFiring ==
    /\ pc \in {"idle", "test", "pop", "fire"} => ~root_lock
    /\ pc = "locked" => root_lock

\* an action's session.assert has taken the lock, inserted the activation of
\* "urgent" and returned; match_rules is back at its loop test
RootLockFreeWhileFiringWitness ==
    /\ pc = "test"
    /\ fired = <<"spawn">>
    /\ ~root_lock
    /\ \E k \in DOMAIN groups["main"] : groups["main"][k].rule = UrgentRule

====
